---- MODULE Spec2Model ----
(***************************************************************************)
(* sBayes: the sampler state (Sample), its dependency-tracked likelihood   *)
(* caches, the categorical likelihood engine and the cluster initializer.  *)
(*                                                                         *)
(* Numbers: log-likelihoods are kept in fixed point, 1/1000 nat; the       *)
(* pointwise likelihoods (probabilities) in 1/1000.                        *)
(* Arrays: a boolean row (a cluster, a group, a source entry) is the set   *)
(* of its True positions.  One categorical feature with two states.        *)
(***************************************************************************)
EXTENDS Integers, Sequences, FiniteSets, TLC

VARIABLES
    n_objects,              \* shapes.n_objects
    n_clusters,             \* shapes.n_clusters
    clusters,               \* sample.clusters.value: cluster -> set of objects
    source,                 \* sample.source.value: object -> set of components
    sufficient_statistics,  \* sample.categorical.sufficient_statistics[name].value
    group_likelihoods,      \* sample.cache.categorical.group_likelihoods[name]
    component_likelihoods,  \* get_ft_cache(sample.cache).component_likelihoods
    last,                   \* the last operation: its name, arguments and result
    pc,                     \* position of the initializer
    initial_size,           \* SbayesInitializer.initial_size
    initial_cluster_steps,  \* SbayesInitializer.initial_cluster_steps
    round,                  \* grow round of generate_sample_attempt
    i_c,                    \* cluster index of its loops
    grown,                  \* the clusters grow_cluster was called for, in order
    min_size,               \* SbayesInitializer.min_size
    max_size,               \* SbayesInitializer.max_size
    adj_mat,                \* SbayesInitializer.adj_mat: object -> its neighbours
    occupied,               \* grow_random_clusters: occupied / already_in_cluster
    cluster,                \* grow_cluster_of_size_k: cluster
    attempts,               \* grow_random_clusters: attempts
    restart,                \* grow_random_clusters: restart
    tries,                  \* grow: iterations of its loop so far
    initialization_attempts,\* SbayesInitializer.initialization_attempts
    lhs,                    \* generate_sample: the scores of the attempts so far
    best_lh,                \* generate_sample: best_lh
    best_sample,            \* generate_sample: best_sample (0: None, n: attempt n)
    feature_type,           \* the feature type of the engine the caches belong to
    present,                \* the feature types t with sample.t not None
    invoked,                \* Likelihood.__call__: the engines it called, in order
    sample_weights,         \* sample.<type>.weights.value: type -> feature -> component -> weight
    weights_normalized,     \* sample.cache.<type>.weights_normalized: type -> cell
    i_step,                 \* sample.i_step
    results,                \* Results of the previous run: the persisted samples
    args,                   \* MCMCSetup.sample: whether initial_sample is given, and resume
    f_stats                 \* Plot.read_stats: the file, the arguments and the locals

vars == <<n_objects, n_clusters, clusters, source, sufficient_statistics,
          group_likelihoods, component_likelihoods, last,
          pc, initial_size, initial_cluster_steps, round, i_c, grown,
          min_size, max_size, adj_mat, occupied, cluster, attempts, restart,
          tries, initialization_attempts, lhs, best_lh, best_sample,
          feature_type, present, invoked, sample_weights, weights_normalized,
          i_step, results, args, f_stats>>

\* The state of the engines of the feature types, of the weights and of the
\* run, which the initializer leaves alone.
Engines == <<feature_type, present, invoked, sample_weights, weights_normalized,
             i_step, results, args, f_stats>>

\* The weights and the step counter of the run.
WeightsAndRun == <<sample_weights, weights_normalized, i_step, results, args,
                   f_stats>>

\* The configuration and the locals of the initializer.
Setup == <<min_size, max_size, adj_mat, occupied, cluster, attempts, restart,
           tries, initialization_attempts, lhs, best_lh, best_sample>>

\* What the likelihood and generate_sample_attempt leave alone.
Others == <<min_size, max_size, adj_mat, occupied, cluster, attempts, restart,
            tries, initialization_attempts, lhs, best_lh, best_sample, Engines>>

------------------------------------------------------------------------------
\* Bounds of the model
NObjects == 3
NClusters == 2

------------------------------------------------------------------------------
\* Shapes and data

Objects == 0..(n_objects - 1)
Clusters == 0..(n_clusters - 1)
Groups == {0, 1}
States == {0, 1}
Names == {"clusters", "conf"}
NoFault == 0 - 1

\* likelihood.py: source_index = {'clusters': 0}, then one index per confounder
source_index(name) == IF name = "clusters" THEN 0 ELSE 1

Components == {source_index(name) : name \in Names}

\* The observed state of the categorical feature of an object, -1 where the
\* observation is missing.
features(o) == IF o % 3 = 2 THEN -1 ELSE o % 2

na_values(o) == features(o) = -1

\* The confounder's fixed group of an object.
group_assignment(o) == o % 2

GroupIdx(name) == IF name = "clusters" THEN Clusters ELSE Groups

Members(name, g, cl) ==
    IF name = "clusters" THEN cl[g]
    ELSE {o \in Objects : group_assignment(o) = g}

\* The adjacency of a path: object i is adjacent to i - 1 and i + 1.
Path(n) == [o \in 0..(n - 1) |-> {o - 1, o + 1} \cap 0..(n - 1)]

\* Model scores are floats: a finite number, minus infinity or NaN.
Finite(x) == [kind |-> "finite", v |-> x]

NegInf == [kind |-> "-inf", v |-> 0]

NaN == [kind |-> "nan", v |-> 0]

\* a > b on floats: False whenever one side is NaN.
Greater(a, b) ==
    /\ a.kind = "finite"
    /\ \/ b.kind = "-inf"
       \/ b.kind = "finite" /\ a.v > b.v

\* The locals of grow_random_clusters, grow_cluster_of_size_k and grow
\* before they run.
GrowerIdle ==
    /\ occupied = {}
    /\ cluster = {}
    /\ attempts = 0
    /\ restart = FALSE
    /\ tries = 0

\* No stats file is being read.
PlotIdle ==
    /\ f_stats = <<>>

\* The sample's types, the weights and the run before they are used.
WeightsIdle ==
    /\ sample_weights = <<>>
    /\ weights_normalized = <<>>

ResumeIdle ==
    /\ i_step = 0
    /\ results = <<>>
    /\ args = [initial_sample |-> FALSE, resume |-> TRUE]

RunIdle ==
    /\ present = {"categorical"}
    /\ invoked = <<>>
    /\ WeightsIdle
    /\ PlotIdle
    /\ ResumeIdle

\* The engines, the weights and the run before they are used.
EngineIdle ==
    /\ feature_type = "categorical"
    /\ RunIdle

\* The locals of generate_sample before it runs.
SelectIdle ==
    /\ lhs = <<>>
    /\ best_lh = NegInf
    /\ best_sample = 0

RECURSIVE SumF(_, _)
SumF(f, S) ==
    IF S = {} THEN 0
    ELSE LET x == CHOOSE y \in S : TRUE IN f[x] + SumF(f, S \ {x})

------------------------------------------------------------------------------
\* Sufficient statistics

\* counts[name][g][s]: the objects of group g with state s whose observation
\* is explained by the component of `name`.
recalculate_feature_counts(cl, src) ==
    [name \in Names |->
        [g \in GroupIdx(name) |->
            [s \in States |->
                Cardinality({o \in Members(name, g, cl) :
                                /\ source_index(name) \in src[o]
                                /\ features(o) = s})]]]

\* has_components: the cluster component is present at the objects of some
\* cluster, the confounder component at every object.
has_components(cl, o) ==
    {source_index("conf")} \cup
    (IF \E c \in DOMAIN cl : o \in cl[c] THEN {source_index("clusters")} ELSE {})

\* The source arrays the samplers produce: one component per observation,
\* among the components present at the object; none where the observation
\* is missing (source[na_values] = 0).  S: the objects explained by their cluster.
LegalSources(cl) ==
    {[o \in Objects |->
        IF na_values(o) THEN {}
        ELSE IF o \in S THEN {source_index("clusters")}
        ELSE {source_index("conf")}] :
     S \in SUBSET {o \in Objects : source_index("clusters") \in has_components(cl, o)}}

------------------------------------------------------------------------------
\* The Dirichlet-categorical kernel

\* 1000 * ln Gamma(n), n = 1..10
LnGamma == <<0, 0, 693, 1792, 3178, 4787, 6579, 8525, 10605, 12802>>

LnBeta(x) == SumF([s \in States |-> LnGamma[x[s]]], States) - LnGamma[SumF(x, States)]

concentration_array == [s \in States |-> 1]

dirichlet_categorical_logpdf(counts, a) ==
    LnBeta([s \in States |-> counts[s] + a[s]]) - LnBeta(a)

------------------------------------------------------------------------------
\* The cache cell

\* A cell: its value, per input key the group indices marked dirty since the
\* last commit, and the outdated flag.
NewCell(value, keys, idx) ==
    [value |-> value, dirty |-> [k \in keys |-> idx[k]], outdated |-> TRUE]

is_outdated(cell) == cell.outdated

what_changed(cell, input_key, caching, idx) ==
    IF caching THEN cell.dirty[input_key] ELSE idx

\* Normal exit of edit(), and update_value: the value is committed, the
\* markers the edit consumed and the outdated flag are cleared.
commit(cell, value) ==
    [value |-> value, dirty |-> [k \in DOMAIN cell.dirty |-> {}], outdated |-> FALSE]

\* An exception escaping edit(): the rows written so far stay in the backing
\* array, nothing is committed, no marker is cleared and the cell is outdated.
abandon(cell, value) == [cell EXCEPT !.value = value, !.outdated = TRUE]

mark_dirty(cell, input_key, G) ==
    [cell EXCEPT !.dirty[input_key] = @ \cup G, !.outdated = @ \/ G # {}]

------------------------------------------------------------------------------
\* Likelihood of the groups (LikelihoodCategorical)

\* The rows an edit writes: the changed rows in index order, up to the row at
\* which the kernel raises (all of them when fault = NoFault).
Written(changed, fault) ==
    IF fault = NoFault THEN changed ELSE {i \in changed : i < fault}

\* Mutant: the rows are written into a new zero array instead of the cached
\* one, so that the rows the loop skips are lost.
ClusterRows_new_array(cell, counts, written) ==
    [i \in Clusters |->
        IF i \in written
        THEN dirichlet_categorical_logpdf(counts[i], concentration_array)
        ELSE 0]

\* The rows of the per-cluster cache after the loop wrote the rows `written`.
ClusterRows(cell, counts, written) ==
    [i \in Clusters |->
        IF i \in written
        THEN dirichlet_categorical_logpdf(counts[i], concentration_array)
        ELSE cell.value[i]]

GroupRows(cell, counts, written) ==
    LET prior_concentration == [g \in Groups |-> concentration_array] IN
    [i \in Groups |->
        IF i \in written
        THEN dirichlet_categorical_logpdf(counts[i], prior_concentration[i])
        ELSE cell.value[i]]

\* The result of an edit: committed on normal exit, abandoned when the kernel raised.
Edited(cell, lh, changed, fault, idx) ==
    LET out == IF fault = NoFault THEN commit(cell, lh) ELSE abandon(cell, lh)
    IN  [cell |-> out, changed |-> changed, raised |-> fault # NoFault,
         ret |-> IF fault = NoFault THEN SumF(out.value, idx) ELSE 0]

\* Mutant: returns lh[changed].sum() instead of the sum over all rows.
compute_lh_clusters_sum_changed(cell, counts, caching, fault) ==
    LET changed == what_changed(cell, "sufficient_stats", caching, Clusters)
        r == Edited(cell, ClusterRows(cell, counts, Written(changed, fault)),
                    changed, fault, Clusters)
    IN  [r EXCEPT !.ret = IF fault = NoFault THEN SumF(r.cell.value, changed) ELSE 0]

\* Mutant: the caching flag is not passed on to what_changed (always False).
compute_lh_clusters_uncached(cell, counts, caching, fault) ==
    LET changed == what_changed(cell, "sufficient_stats", FALSE, Clusters)
    IN  Edited(cell, ClusterRows(cell, counts, Written(changed, fault)),
               changed, fault, Clusters)

\* Mutant: the caching flag is not passed on to what_changed (always True).
compute_lh_clusters_always_cached(cell, counts, caching, fault) ==
    LET changed == what_changed(cell, "sufficient_stats", TRUE, Clusters)
    IN  Edited(cell, ClusterRows(cell, counts,
                                 Written(changed, IF fault \in changed THEN fault ELSE NoFault)),
               changed, IF fault \in changed THEN fault ELSE NoFault, Clusters)

\* Mutant: the rows are written and committed in a finally block, so that
\* an edit the kernel raised in is committed too.
compute_lh_clusters_finally(cell, counts, caching, fault) ==
    LET changed == what_changed(cell, "sufficient_stats", caching, Clusters)
        lh == ClusterRows(cell, counts, Written(changed, fault))
    IN  [cell |-> commit(cell, lh), changed |-> changed, raised |-> fault # NoFault,
         ret |-> IF fault = NoFault THEN SumF(lh, Clusters) ELSE 0]

compute_lh_clusters(cell, counts, caching, fault) ==
    LET changed == what_changed(cell, "sufficient_stats", caching, Clusters)
    IN  Edited(cell, ClusterRows(cell, counts, Written(changed, fault)),
               changed, fault, Clusters)

\* Mutant: returns lh[changed].sum() instead of the sum over all rows.
compute_lh_confounder_sum_changed(cell, counts, caching, fault) ==
    LET changed == what_changed(cell, "sufficient_stats", caching, Groups)
        r == Edited(cell, GroupRows(cell, counts, Written(changed, fault)),
                    changed, fault, Groups)
    IN  [r EXCEPT !.ret = IF fault = NoFault THEN SumF(r.cell.value, changed) ELSE 0]

compute_lh_confounder(cell, counts, caching, fault) ==
    LET changed == what_changed(cell, "sufficient_stats", caching, Groups)
    IN  Edited(cell, GroupRows(cell, counts, Written(changed, fault)),
               changed, fault, Groups)

\* Mutant: the counts are recalculated after the likelihoods of the groups
\* were computed, which read the counts as they were.
total_log_likelihood_counts_after(gl, cl, src, counts, caching) ==
    LET stats == IF caching THEN counts ELSE recalculate_feature_counts(cl, src)
        a == compute_lh_clusters(gl["clusters"], counts["clusters"], caching, NoFault)
        b == compute_lh_confounder(gl["conf"], counts["conf"], caching, NoFault)
    IN  [group_likelihoods |-> [name \in Names |-> IF name = "clusters" THEN a.cell ELSE b.cell],
         sufficient_statistics |-> stats,
         changed |-> a.changed,
         ret |-> a.ret + b.ret]

\* LikelihoodGenericType.__call__
total_log_likelihood(gl, cl, src, counts, caching) ==
    LET stats == IF caching THEN counts ELSE recalculate_feature_counts(cl, src)
        a == compute_lh_clusters(gl["clusters"], stats["clusters"], caching, NoFault)
        b == compute_lh_confounder(gl["conf"], stats["conf"], caching, NoFault)
    IN  [group_likelihoods |-> [name \in Names |-> IF name = "clusters" THEN a.cell ELSE b.cell],
         sufficient_statistics |-> stats,
         changed |-> a.changed,
         ret |-> a.ret + b.ret]

------------------------------------------------------------------------------
\* The sample and its setters

Zero(idx) == [i \in idx |-> 0]

\* The caches of a new sample after everything_changed(): every key dirty.
NewGroupLikelihoods ==
    [name \in Names |->
        NewCell(Zero(GroupIdx(name)), {"sufficient_stats"},
                [k \in {"sufficient_stats"} |-> GroupIdx(name)])]

CompKeys == {"clusters", "clusters_sufficient_stats", "conf_sufficient_stats"}

KeyIdx(k) == IF k = "conf_sufficient_stats" THEN Groups ELSE Clusters

NewComponentLikelihoods ==
    NewCell([o \in Objects |-> [k \in Components |-> 0]], CompKeys,
            [k \in CompKeys |-> KeyIdx(k)])

\* The groups an operator marks dirty: those whose sufficient statistics
\* it changed.
ChangedStats(old, new) ==
    [name \in Names |-> {g \in GroupIdx(name) : new[name][g] # old[name][g]}]

AllGroups == [name \in Names |-> GroupIdx(name)]

\* mark_dirty(G[name]) on the sufficient statistics of every `name`, seen by
\* each cell that declares them as an input.
MarkGroupLikelihoods(gl, G) ==
    [name \in Names |-> mark_dirty(gl[name], "sufficient_stats", G[name])]

MarkComponentLikelihoods(cell, changedClusters, G) ==
    mark_dirty(
        mark_dirty(
            mark_dirty(cell, "clusters", changedClusters),
            "clusters_sufficient_stats", G["clusters"]),
        "conf_sufficient_stats", G["conf"])

\* The record of an operation.  after: what preceded a compute_lh_clusters call.
Note(op, caching, raised, changed, ret) ==
    [op |-> op, caching |-> caching, raised |-> raised, changed |-> changed,
     ret |-> ret, after |-> "other"]

Mutated(op) == Note(op, FALSE, FALSE, {}, 0)

Free(cl) == {o \in Objects : \A c \in DOMAIN cl : o \notin cl[c]}

SourceOf(o, k) == IF na_values(o) THEN {} ELSE {k}

------------------------------------------------------------------------------
\* Pointwise likelihood of the components

\* normalize(counts + prior)[s], in 1/1000
normalize(x, s) == (1000 * x[s]) \div SumF(x, States)

Max(S) == CHOOSE x \in S : \A y \in S : y <= x

\* compute_component_likelihood: one column of the component likelihoods.
\* `written` are the changed groups the loop reaches.
compute_component_likelihood(probs, name, cl, written, out) ==
    [o \in Objects |->
        LET mine == {i \in written : o \in Members(name, i, cl)} IN
        IF mine # {}
        THEN (IF na_values(o) THEN 0 ELSE probs[Max(mine)][features(o)])
        ELSE IF \A g \in GroupIdx(name) : o \notin Members(name, g, cl)
        THEN 0
        ELSE out[o]]

\* compute_pointwise_cluster_likelihood / compute_pointwise_confounder_likelihood
compute_pointwise_likelihood(counts, name, cl, written, out) ==
    LET effect_counts == [g \in GroupIdx(name) |->
                            [s \in States |-> counts[name][g][s] + concentration_array[s]]]
        effect == [g \in GroupIdx(name) |->
                     [s \in States |-> normalize(effect_counts[g], s)]]
    IN  compute_component_likelihood(effect, name, cl, written, out)

\* The feature types, each with an engine of its own.
FeatureTypes == {"categorical", "gaussian", "poisson", "logitnormal"}

\* The observed count of the Poisson feature of an object.
poisson_features(o) == (o + 1) % 2

\* The prior of the Poisson rate: alpha_0_array, beta_0_array.
alpha_0 == 1

beta_0 == 1

RECURSIVE Pow(_, _)
Pow(b, e) == IF e = 0 THEN 1 ELSE b * Pow(b, e - 1)

\* scipy.stats.nbinom.pmf(k, n, p) for p = beta_1 / (1 + beta_1) and k in
\* {0, 1}, in 1/1000: C(k + n - 1, k) * p^n * (1 - p)^k.
nbinom_pmf(k, n, beta_1) ==
    (1000 * (IF k = 0 THEN 1 ELSE n) * Pow(beta_1, n)) \div Pow(1 + beta_1, n + k)

\* LikelihoodGaussian and LikelihoodLogitNormal: the pointwise kernels write
\* the constant 0.5 at the members of the changed groups the loop reaches and
\* 0 at the objects of no group.
compute_pointwise_constant(name, cl, written, out) ==
    [o \in Objects |->
        IF \E i \in written : o \in Members(name, i, cl)
        THEN 500
        ELSE IF \A g \in GroupIdx(name) : o \notin Members(name, g, cl)
        THEN 0
        ELSE out[o]]

\* LikelihoodPoisson: the negative binomial of the count of the object given
\* the counts of the other members of its group.
compute_pointwise_poisson(name, cl, written, out) ==
    [o \in Objects |->
        LET mine == {i \in written : o \in Members(name, i, cl)} IN
        IF mine # {}
        THEN LET g == Members(name, Max(mine), cl)
                 f == [m \in g |-> poisson_features(m)]
                 n == Cardinality(g) - 1
                 alpha_1 == alpha_0 + SumF(f, g) - f[o]
                 beta_1 == beta_0 + n
             IN  nbinom_pmf(f[o], alpha_1, beta_1)
        ELSE IF \A g \in GroupIdx(name) : o \notin Members(name, g, cl)
        THEN 0
        ELSE out[o]]

\* compute_pointwise_cluster_likelihood and
\* compute_pointwise_confounder_likelihood of the engine of feature_type.
compute_pointwise_component(counts, name, cl, written, out) ==
    CASE feature_type = "categorical" ->
            compute_pointwise_likelihood(counts, name, cl, written, out)
      [] feature_type = "poisson" ->
            compute_pointwise_poisson(name, cl, written, out)
      [] OTHER ->
            compute_pointwise_constant(name, cl, written, out)

\* Mutant: the computed array is cached as the kernels left it.
na_patch_omitted(value) == value

\* component_likelihood[self.na_values()] = 1.  The categorical engine
\* returns the NA mask of its features; the other engines inherit na_values
\* of LikelihoodGenericType, which returns None, and an array indexed by None
\* is the whole array with an axis added: every entry is assigned.
na_patch(value) ==
    [o \in Objects |->
        [k \in Components |->
            IF feature_type = "categorical"
            THEN (IF na_values(o) THEN 1000 ELSE value[o][k])
            ELSE 1000]]

\* Mutant: the cached value is returned whenever caching is asked for.
returns_cached_stale(cell, caching) == caching

\* if caching and not lh_cache.is_outdated(): return lh_cache.value
returns_cached(cell, caching) == caching /\ ~is_outdated(cell)

\* Mutant: the confounders are enumerated from 0, so that the column of the
\* first confounder is the one of the cluster component.
component_columns_from_zero(col0, col1) ==
    [o \in Objects |-> [k \in Components |-> IF k = 0 THEN col1[o] ELSE col0[o]]]

\* out=component_likelihood[..., 0] for the cluster component and
\* out=component_likelihood[..., i] for confounder i of enumerate(start=1)
component_columns(col0, col1) ==
    [o \in Objects |-> [k \in Components |-> IF k = 0 THEN col0[o] ELSE col1[o]]]

NoRaise == [comp |-> NoFault, at |-> NoFault]

Column(value, k) == [o \in Objects |-> value[o][k]]

\* Mutant: the edit is committed in a finally block, also when a kernel raised.
pointwise_likelihood_finally(cell, cl, counts, caching, fault) ==
    IF caching /\ ~is_outdated(cell)
    THEN [cell |-> cell, edited |-> FALSE, raised |-> FALSE,
          changed |-> [name \in Names |-> {}]]
    ELSE
    LET changed_clusters ==
            what_changed(cell, "clusters", caching, Clusters)
            \cup what_changed(cell, "clusters_sufficient_stats", caching, Clusters)
        changed_groups == what_changed(cell, "conf_sufficient_stats", caching, Groups)
        raised0 == fault.comp = source_index("clusters")
        raised1 == fault.comp = source_index("conf")
        col0 == IF changed_clusters # {}
                THEN compute_pointwise_likelihood(counts, "clusters", cl,
                        Written(changed_clusters, IF raised0 THEN fault.at ELSE NoFault),
                        Column(cell.value, 0))
                ELSE Column(cell.value, 0)
        col1 == IF changed_groups # {} /\ ~raised0
                THEN compute_pointwise_likelihood(counts, "conf", cl,
                        Written(changed_groups, IF raised1 THEN fault.at ELSE NoFault),
                        Column(cell.value, 1))
                ELSE Column(cell.value, 1)
        computed == [o \in Objects |-> [k \in Components |-> IF k = 0 THEN col0[o] ELSE col1[o]]]
        patched == [o \in Objects |->
                      [k \in Components |-> IF na_values(o) THEN 1000 ELSE computed[o][k]]]
    IN  [cell |-> commit(cell, IF fault = NoRaise THEN patched ELSE computed),
         edited |-> TRUE, raised |-> fault # NoRaise,
         changed |-> [name \in Names |->
                        IF name = "clusters" THEN changed_clusters ELSE changed_groups]]

\* LikelihoodGenericType.pointwise_likelihood.  fault names the component
\* whose kernel raises and the group at which it does (the model lets the
\* kernel of the cluster component raise).
\* Mutant: the columns are written straight into the value of the cache,
\* outside the scope of the edit, which is entered only to commit.
pointwise_likelihood_unscoped(cell, cl, counts, caching, fault) ==
    IF caching /\ ~is_outdated(cell)
    THEN [cell |-> cell, edited |-> FALSE, raised |-> FALSE,
          changed |-> [name \in Names |-> {}]]
    ELSE
    LET changed_clusters ==
            what_changed(cell, "clusters", caching, Clusters)
            \cup what_changed(cell, "clusters_sufficient_stats", caching, Clusters)
        changed_groups == what_changed(cell, "conf_sufficient_stats", caching, Groups)
        raised0 == fault.comp = source_index("clusters")
        raised1 == fault.comp = source_index("conf")
        col0 == IF changed_clusters # {}
                THEN compute_pointwise_likelihood(counts, "clusters", cl,
                        Written(changed_clusters, IF raised0 THEN fault.at ELSE NoFault),
                        Column(cell.value, 0))
                ELSE Column(cell.value, 0)
        col1 == IF changed_groups # {} /\ ~raised0
                THEN compute_pointwise_likelihood(counts, "conf", cl,
                        Written(changed_groups, IF raised1 THEN fault.at ELSE NoFault),
                        Column(cell.value, 1))
                ELSE Column(cell.value, 1)
        computed == [o \in Objects |-> [k \in Components |-> IF k = 0 THEN col0[o] ELSE col1[o]]]
        patched == [o \in Objects |->
                      [k \in Components |-> IF na_values(o) THEN 1000 ELSE computed[o][k]]]
    IN  [cell |-> IF fault = NoRaise THEN commit(cell, patched)
                   ELSE [cell EXCEPT !.value = computed],
         edited |-> TRUE, raised |-> fault # NoRaise,
         changed |-> [name \in Names |->
                        IF name = "clusters" THEN changed_clusters ELSE changed_groups]]

\* LikelihoodGenericType.pointwise_likelihood.  fault names the component
\* whose kernel raises and the group at which it does (the model lets the
\* kernel of the cluster component raise).
pointwise_likelihood(cell, cl, counts, caching, fault) ==
    IF returns_cached(cell, caching)
    THEN [cell |-> cell, edited |-> FALSE, raised |-> FALSE,
          changed |-> [name \in Names |-> {}]]
    ELSE
    LET changed_clusters ==
            what_changed(cell, "clusters", caching, Clusters)
            \cup what_changed(cell, "clusters_sufficient_stats", caching, Clusters)
        changed_groups == what_changed(cell, "conf_sufficient_stats", caching, Groups)
        raised0 == fault.comp = source_index("clusters")
        raised1 == fault.comp = source_index("conf")
        col0 == IF changed_clusters # {}
                THEN compute_pointwise_component(counts, "clusters", cl,
                        Written(changed_clusters, IF raised0 THEN fault.at ELSE NoFault),
                        Column(cell.value, 0))
                ELSE Column(cell.value, 0)
        col1 == IF changed_groups # {} /\ ~raised0
                THEN compute_pointwise_component(counts, "conf", cl,
                        Written(changed_groups, IF raised1 THEN fault.at ELSE NoFault),
                        Column(cell.value, 1))
                ELSE Column(cell.value, 1)
        computed == component_columns(col0, col1)
        patched == na_patch(computed)
    IN  [cell |-> IF fault = NoRaise THEN commit(cell, patched) ELSE abandon(cell, computed),
         edited |-> TRUE, raised |-> fault # NoRaise,
         changed |-> [name \in Names |->
                        IF name = "clusters" THEN changed_clusters ELSE changed_groups]]

------------------------------------------------------------------------------
\* The sampling phase: operators mutate the sample, likelihoods are evaluated

\* The sample as generate_sample_attempt has it after its first
\* source.set_value and recalculate_feature_counts, cluster c seeded at object c.
Init ==
    /\ n_objects = NObjects
    /\ n_clusters = NClusters
    /\ clusters = [c \in 0..(NClusters - 1) |-> {c}]
    /\ source \in LegalSources(clusters)
    /\ sufficient_statistics = recalculate_feature_counts(clusters, source)
    /\ group_likelihoods = NewGroupLikelihoods
    /\ component_likelihoods = NewComponentLikelihoods
    /\ last = Mutated("mutation")
    /\ pc = "sampling"
    /\ initial_size = 1
    /\ initial_cluster_steps = FALSE
    /\ round = 0
    /\ i_c = 0
    /\ grown = <<>>
    /\ min_size = 1
    /\ max_size = NObjects
    /\ adj_mat = Path(NObjects)
    /\ initialization_attempts = 1
    /\ GrowerIdle
    /\ SelectIdle
    /\ EngineIdle

\* A step of an operator: clusters and source become cl and src, the counts
\* follow, and the groups in G are marked dirty.
Apply(note, cl, src, G) ==
    /\ clusters' = cl
    /\ source' = src
    /\ sufficient_statistics' = recalculate_feature_counts(cl, src)
    /\ group_likelihoods' = MarkGroupLikelihoods(group_likelihoods, G)
    /\ component_likelihoods' =
          MarkComponentLikelihoods(component_likelihoods,
                                   {c \in Clusters : cl[c] # clusters[c]}, G)
    /\ last' = note
    /\ UNCHANGED <<n_objects, n_clusters>>

\* sample.everything_changed(): every input key of every cache is marked
\* dirty for every index; the sample itself stays as it is.
everything_changed(note) ==
    /\ group_likelihoods' = MarkGroupLikelihoods(group_likelihoods, AllGroups)
    /\ component_likelihoods' =
          MarkComponentLikelihoods(component_likelihoods, Clusters, AllGroups)
    /\ last' = note
    /\ UNCHANGED <<n_objects, n_clusters, clusters, source, sufficient_statistics>>

Mutate(cl, src) ==
    Apply(Mutated("mutation"), cl, src,
          ChangedStats(sufficient_statistics, recalculate_feature_counts(cl, src)))

Frame == UNCHANGED <<pc, initial_size, initial_cluster_steps, round, i_c, grown, Others>>

\* The grow step of the cluster operator: a free object joins cluster c and
\* its source is resampled.
GrowCluster(c, o, k) ==
    /\ pc = "sampling"
    /\ o \in Free(clusters)
    /\ Cardinality(clusters[c]) < max_size
    /\ Mutate([clusters EXCEPT ![c] = @ \cup {o}],
              [source EXCEPT ![o] = SourceOf(o, k)])
    /\ Frame

\* A Gibbs step on the source of one object.
ResampleSource(o, k) ==
    /\ pc = "sampling"
    /\ k \in has_components(clusters, o)
    /\ source[o] # SourceOf(o, k)
    /\ Mutate(clusters, [source EXCEPT ![o] = SourceOf(o, k)])
    /\ Frame

AllClean ==
    /\ \A name \in Names : ~is_outdated(group_likelihoods[name])
    /\ ~is_outdated(component_likelihoods)

\* The record of a source.set_value: after says whether every cache was clean.
SetNote ==
    [Mutated("set_source") EXCEPT !.after = IF AllClean THEN "clean" ELSE "other"]

NoGroups == [name \in Names |-> {}]

\* Mutant: the array is assigned to the parameter directly, not through
\* set_value, so that no cache is marked dirty.
SetSource_bypass(src) ==
    /\ pc = "sampling"
    /\ Apply(SetNote, clusters, src, NoGroups)
    /\ Frame

\* sample.source.set_value(source); recalculate_feature_counts(features, sample)
SetSource(src) ==
    /\ pc = "sampling"
    /\ Apply(SetNote, clusters, src, AllGroups)
    /\ Frame

\* sample.everything_changed()
EverythingChanged ==
    /\ pc = "sampling"
    /\ everything_changed(Mutated("mutation"))
    /\ Frame

Preceding(cell) ==
    IF last.op = "compute_lh_clusters" /\ last.caching /\ last.raised
    THEN "raised"
    ELSE IF last.op = "compute_lh_clusters" /\ last.caching /\ last.changed # {}
    THEN "recomputed"
    ELSE IF cell.dirty["sufficient_stats"] = {} THEN "clean" ELSE "other"

ComputeLhClusters(caching, fault) ==
    /\ pc = "sampling"
    /\ LET cell == group_likelihoods["clusters"]
           r == compute_lh_clusters(cell, sufficient_statistics["clusters"], caching, fault)
       IN  /\ fault = NoFault
              \/ fault \in what_changed(cell, "sufficient_stats", caching, Clusters)
           /\ group_likelihoods' = [group_likelihoods EXCEPT !["clusters"] = r.cell]
           /\ last' = [Note("compute_lh_clusters", caching, r.raised, r.changed, r.ret)
                        EXCEPT !.after = Preceding(cell)]
    /\ UNCHANGED <<n_objects, n_clusters, clusters, source, sufficient_statistics,
                   component_likelihoods, pc, initial_size, initial_cluster_steps, round, i_c, grown, Others>>

ComputeLhConfounder(caching, fault) ==
    /\ pc = "sampling"
    /\ LET cell == group_likelihoods["conf"]
           r == compute_lh_confounder(cell, sufficient_statistics["conf"], caching, fault)
       IN  /\ fault = NoFault
              \/ fault \in what_changed(cell, "sufficient_stats", caching, Groups)
           /\ group_likelihoods' = [group_likelihoods EXCEPT !["conf"] = r.cell]
           /\ last' = Note("compute_lh_confounder", caching, r.raised, r.changed, r.ret)
    /\ UNCHANGED <<n_objects, n_clusters, clusters, source, sufficient_statistics,
                   component_likelihoods, pc, initial_size, initial_cluster_steps, round, i_c, grown, Others>>

TotalLogLikelihood(caching) ==
    /\ pc = "sampling"
    /\ LET r == total_log_likelihood(group_likelihoods, clusters, source,
                                     sufficient_statistics, caching)
       IN  /\ group_likelihoods' = r.group_likelihoods
           /\ sufficient_statistics' = r.sufficient_statistics
           /\ last' = [Note("total_log_likelihood", caching, FALSE, r.changed, r.ret)
                        EXCEPT !.after =
                            IF sufficient_statistics = recalculate_feature_counts(clusters, source)
                            THEN "other" ELSE "stale"]
    /\ UNCHANGED <<n_objects, n_clusters, clusters, source, component_likelihoods, pc, initial_size, initial_cluster_steps, round, i_c, grown, Others>>

PointwiseFaults(cell, caching) ==
    {NoRaise} \cup
    {[comp |-> 0, at |-> g] :
        g \in what_changed(cell, "clusters", caching, Clusters)
              \cup what_changed(cell, "clusters_sufficient_stats", caching, Clusters)}

PointwiseLikelihood(caching, fault) ==
    /\ pc = "sampling"
    /\ LET r == pointwise_likelihood(component_likelihoods, clusters,
                                     sufficient_statistics, caching, fault)
       IN  /\ fault = NoRaise \/ ~(caching /\ ~is_outdated(component_likelihoods))
           /\ component_likelihoods' = r.cell
           /\ last' = [Note("pointwise_likelihood", caching, r.raised, r.changed["clusters"], 0)
                        EXCEPT !.after = IF is_outdated(component_likelihoods)
                                         THEN "other" ELSE "clean"]
                       @@ [groups |-> r.changed["conf"]]
    /\ UNCHANGED <<n_objects, n_clusters, clusters, source, sufficient_statistics,
                   group_likelihoods, pc, initial_size, initial_cluster_steps, round, i_c, grown, Others>>

Mutation ==
    \/ \E c \in Clusters, o \in Objects, k \in Components : GrowCluster(c, o, k)
    \/ \E o \in Objects, k \in Components : ResampleSource(o, k)
    \/ \E src \in LegalSources(clusters) : SetSource(src)
    \/ EverythingChanged

\* The sampler with the likelihood of the groups
Next ==
    \/ Mutation
    \/ \E caching \in BOOLEAN, fault \in Clusters \cup {NoFault} :
          ComputeLhClusters(caching, fault)
    \/ \E caching \in BOOLEAN, fault \in {NoFault} :
          ComputeLhConfounder(caching, fault)
    \/ \E caching \in BOOLEAN : TotalLogLikelihood(caching)

Spec == Init /\ [][Next]_vars

\* The sampler with the pointwise likelihood of the components
NextPointwise ==
    \/ Mutation
    \/ \E caching \in BOOLEAN :
          \E fault \in PointwiseFaults(component_likelihoods, caching) :
             PointwiseLikelihood(caching, fault)

SpecPointwise == Init /\ [][NextPointwise]_vars

\* sample.source.set_value(source) on its own: the source is replaced and
\* its dependents are marked dirty; the counts are those of the old source
\* until they are recalculated.
SetSourceValue(src) ==
    /\ pc = "sampling"
    /\ source' = src
    /\ group_likelihoods' = MarkGroupLikelihoods(group_likelihoods, AllGroups)
    /\ component_likelihoods' = MarkComponentLikelihoods(component_likelihoods, {}, AllGroups)
    /\ last' = SetNote
    /\ UNCHANGED <<n_objects, n_clusters, clusters, sufficient_statistics>>
    /\ Frame

\* recalculate_feature_counts(features, sample) on its own
RecalculateFeatureCounts ==
    /\ pc = "sampling"
    /\ sufficient_statistics # recalculate_feature_counts(clusters, source)
    /\ sufficient_statistics' = recalculate_feature_counts(clusters, source)
    /\ last' = Mutated("recalculate_feature_counts")
    /\ UNCHANGED <<n_objects, n_clusters, clusters, source, group_likelihoods,
                   component_likelihoods>>
    /\ Frame

\* The likelihood of the groups evaluated while the counts may be out of date
NextUncached ==
    \/ \E src \in LegalSources(clusters) : SetSourceValue(src)
    \/ RecalculateFeatureCounts
    \/ \E c \in Clusters, o \in Objects, k \in Components : GrowCluster(c, o, k)
    \/ \E caching \in BOOLEAN : TotalLogLikelihood(caching)

SpecUncached == Init /\ [][NextUncached]_vars

------------------------------------------------------------------------------
\* The likelihood of all feature types (Likelihood.__call__)

\* The engines in the order Likelihood.__call__ asks for them.
EngineOrder == <<"categorical", "gaussian", "poisson", "logitnormal">>

\* The total log-likelihood the engine of a type other than categorical
\* returns for the sample: the marginal of its kernel, one term per object in
\* a cluster and one per object for the confounder.
engine_log_lh(ft, cl) ==
    LET scale == CASE ft = "gaussian" -> 1100
                   [] ft = "poisson" -> 2300
                   [] OTHER -> 4700
    IN  0 - scale * (Cardinality(UNION {cl[c] : c \in DOMAIN cl}) + Cardinality(Objects))

\* What Likelihood.__call__ does with the engines in `order` that pass `used`.
SumEngines(used, gl, cl, src, counts, caching) ==
    LET cat == total_log_likelihood(gl, cl, src, counts, caching)
        term(ft) == IF ft = "categorical" THEN cat.ret ELSE engine_log_lh(ft, cl)
        called == {used[i] : i \in DOMAIN used}
    IN  [ret |-> SumF([ft \in called |-> term(ft)], called),
         invoked |-> used,
         group_likelihoods |->
            IF "categorical" \in called THEN cat.group_likelihoods ELSE gl,
         sufficient_statistics |->
            IF "categorical" \in called THEN cat.sufficient_statistics ELSE counts]

\* Mutant: every engine is called, whether the sample has its type or not.
likelihood_unconditional(types, gl, cl, src, counts, caching) ==
    SumEngines(EngineOrder, gl, cl, src, counts, caching)

\* Likelihood.__call__: log_lh = 0.0, and for each type in turn
\* if sample.<type> is not None: log_lh += self.<type>(sample, caching)
likelihood(types, gl, cl, src, counts, caching) ==
    SumEngines(SelectSeq(EngineOrder, LAMBDA ft : ft \in types),
               gl, cl, src, counts, caching)

\* The sample of Init for a model with any set of feature types.
InitCall ==
    /\ n_objects = NObjects
    /\ n_clusters = NClusters
    /\ clusters = [c \in 0..(NClusters - 1) |-> {c}]
    /\ source \in LegalSources(clusters)
    /\ sufficient_statistics = recalculate_feature_counts(clusters, source)
    /\ group_likelihoods = NewGroupLikelihoods
    /\ component_likelihoods = NewComponentLikelihoods
    /\ last = Mutated("mutation")
    /\ pc = "sampling"
    /\ initial_size = 1
    /\ initial_cluster_steps = FALSE
    /\ round = 0
    /\ i_c = 0
    /\ grown = <<>>
    /\ min_size = 1
    /\ max_size = NObjects
    /\ adj_mat = Path(NObjects)
    /\ initialization_attempts = 1
    /\ GrowerIdle
    /\ SelectIdle
    /\ feature_type = "categorical"
    /\ present \in SUBSET FeatureTypes
    /\ invoked = <<>>
    /\ WeightsIdle
    /\ PlotIdle
    /\ ResumeIdle

LikelihoodCall(caching) ==
    /\ pc = "sampling"
    /\ LET r == likelihood(present, group_likelihoods, clusters, source,
                           sufficient_statistics, caching)
       IN  /\ group_likelihoods' = r.group_likelihoods
           /\ sufficient_statistics' = r.sufficient_statistics
           /\ invoked' = r.invoked
           /\ last' = Note("likelihood", caching, FALSE, {}, r.ret)
    /\ UNCHANGED <<n_objects, n_clusters, clusters, source, component_likelihoods,
                   pc, initial_size, initial_cluster_steps, round, i_c, grown,
                   Setup, feature_type, present, WeightsAndRun>>

NextCall ==
    \/ \E c \in Clusters, o \in Objects, k \in Components : GrowCluster(c, o, k)
    \/ \E o \in Objects, k \in Components : ResampleSource(o, k)
    \/ \E caching \in BOOLEAN : LikelihoodCall(caching)

SpecCall == InitCall /\ [][NextCall]_vars

\* The same sampler on a sample whose clusters were seeded at any objects,
\* the seeds in the order of the clusters.
InitSeeded ==
    /\ n_objects = NObjects
    /\ n_clusters = NClusters
    /\ \E seed \in [0..(NClusters - 1) -> 0..(NObjects - 1)] :
          /\ \A c, d \in DOMAIN seed : c < d => seed[c] < seed[d]
          /\ clusters = [c \in 0..(NClusters - 1) |-> {seed[c]}]
    /\ source \in LegalSources(clusters)
    /\ sufficient_statistics = recalculate_feature_counts(clusters, source)
    /\ group_likelihoods = NewGroupLikelihoods
    /\ component_likelihoods = NewComponentLikelihoods
    /\ last = Mutated("mutation")
    /\ pc = "sampling"
    /\ initial_size = 1
    /\ initial_cluster_steps = FALSE
    /\ round = 0
    /\ i_c = 0
    /\ grown = <<>>
    /\ min_size = 1
    /\ max_size = NObjects
    /\ adj_mat = Path(NObjects)
    /\ initialization_attempts = 1
    /\ GrowerIdle
    /\ SelectIdle
    /\ EngineIdle

SpecSeeded == InitSeeded /\ [][NextPointwise]_vars

\* The same sampler on the caches of the engine of any feature type.
InitTypes ==
    /\ n_objects = NObjects
    /\ n_clusters = NClusters
    /\ clusters = [c \in 0..(NClusters - 1) |-> {c}]
    /\ source \in LegalSources(clusters)
    /\ sufficient_statistics = recalculate_feature_counts(clusters, source)
    /\ group_likelihoods = NewGroupLikelihoods
    /\ component_likelihoods = NewComponentLikelihoods
    /\ last = Mutated("mutation")
    /\ pc = "sampling"
    /\ initial_size = 1
    /\ initial_cluster_steps = FALSE
    /\ round = 0
    /\ i_c = 0
    /\ grown = <<>>
    /\ min_size = 1
    /\ max_size = NObjects
    /\ adj_mat = Path(NObjects)
    /\ initialization_attempts = 1
    /\ GrowerIdle
    /\ SelectIdle
    /\ feature_type \in FeatureTypes
    /\ RunIdle

SpecTypes == InitTypes /\ [][NextPointwise]_vars

\* The sampler's cluster steps with kernels that may raise
NextRaising ==
    \/ \E c \in Clusters, o \in Objects, k \in Components : GrowCluster(c, o, k)
    \/ EverythingChanged
    \/ \E caching \in BOOLEAN, fault \in Clusters \cup {NoFault} :
          ComputeLhClusters(caching, fault)
    \/ \E caching \in BOOLEAN :
          \E fault \in PointwiseFaults(component_likelihoods, caching) :
             PointwiseLikelihood(caching, fault)

SpecRaising == Init /\ [][NextRaising]_vars

\* The sampler with both likelihoods, evaluated with caching
NextCached ==
    \/ Mutation
    \/ TotalLogLikelihood(TRUE)
    \/ PointwiseLikelihood(TRUE, NoRaise)

SpecCached == Init /\ [][NextCached]_vars

------------------------------------------------------------------------------
\* The initializer (SbayesInitializer)

MaxInitialSize == 3

\* Mutant: the seed is not removed from free_objs.
RECURSIVE initialize_clusters_keep(_, _, _)
initialize_clusters_keep(i_cluster, cl, free_objs) ==
    IF i_cluster = n_clusters THEN {cl}
    ELSE UNION {initialize_clusters_keep(i_cluster + 1,
                                         [cl EXCEPT ![i_cluster] = @ \cup {j}],
                                         free_objs) : j \in free_objs}

\* Mutant: the loop stops one cluster early, range(n_clusters - 1).
RECURSIVE initialize_clusters_short(_, _, _)
initialize_clusters_short(i_cluster, cl, free_objs) ==
    IF i_cluster >= n_clusters - 1 THEN {cl}
    ELSE UNION {initialize_clusters_short(i_cluster + 1,
                                          [cl EXCEPT ![i_cluster] = @ \cup {j}],
                                          free_objs \ {j}) : j \in free_objs}

\* initialize_clusters, from cluster i_cluster on: the cluster matrices the
\* random draws can give.  No matrix when the free objects run out
\* (random.sample raises ValueError).
RECURSIVE initialize_clusters(_, _, _)
initialize_clusters(i_cluster, cl, free_objs) ==
    IF i_cluster = n_clusters THEN {cl}
    ELSE UNION {initialize_clusters(i_cluster + 1,
                                    [cl EXCEPT ![i_cluster] = @ \cup {j}],
                                    free_objs \ {j}) : j \in free_objs}

InitInitializer ==
    /\ n_objects \in 1..NObjects
    /\ n_clusters \in 0..NClusters
    /\ initial_size \in 1..MaxInitialSize
    /\ initial_cluster_steps \in BOOLEAN
    /\ clusters = [c \in Clusters |-> {}]
    /\ source = [o \in Objects |-> {}]
    /\ sufficient_statistics = recalculate_feature_counts(clusters, source)
    /\ group_likelihoods = NewGroupLikelihoods
    /\ component_likelihoods = NewComponentLikelihoods
    /\ last = Mutated("mutation")
    /\ pc = "start"
    /\ round = 0
    /\ i_c = 0
    /\ grown = <<>>
    /\ min_size \in 1..2
    /\ max_size \in {2, NObjects}
    /\ adj_mat = Path(n_objects)
    /\ initialization_attempts = 1
    /\ GrowerIdle
    /\ SelectIdle
    /\ EngineIdle

Config == UNCHANGED <<initial_size, initial_cluster_steps, Others>>

Sample == <<clusters, source, sufficient_statistics, group_likelihoods,
            component_likelihoods, last>>

\* generate_initial_clusters -> initialize_clusters
InitializeClusters ==
    /\ pc = "start"
    /\ LET seeds == initialize_clusters(0, [c \in Clusters |-> {}], Objects) IN
       IF seeds = {}
       THEN /\ pc' = "ValueError"
            /\ UNCHANGED clusters
       ELSE /\ pc' = "seeded"
            /\ clusters' \in seeds
    /\ UNCHANGED <<n_objects, n_clusters, source, sufficient_statistics,
                   group_likelihoods, component_likelihoods, last, round, i_c, grown>>
    /\ Config

\* generate_initial_weights: normalize(ones), in 1/1000
generate_initial_weights == [k \in Components |-> 1000 \div Cardinality(Components)]

\* The features of a type: one categorical feature, two of any other type.
FeaturesOf(ft) == IF ft = "categorical" THEN {0} ELSE {0, 1}

\* The rank of a boolean row among the rows in lexicographic order.
RowKey(row) ==
    SumF([k \in Components |->
            IF k \in row THEN Pow(2, Cardinality(Components) - 1 - k) ELSE 0],
         Components)

\* np.unique(rows, axis=0): the distinct rows in lexicographic order
RECURSIVE unique(_)
unique(rows) ==
    IF rows = {} THEN <<>>
    ELSE LET first == CHOOSE r \in rows : \A q \in rows : RowKey(r) <= RowKey(q)
         IN  <<first>> \o unique(rows \ {first})

\* Mutant: the weights of a pattern are masked and not divided by their sum.
weights_of_pattern_masked(row, weights) ==
    [f \in DOMAIN weights |->
        [k \in Components |-> IF k \in row THEN weights[f][k] ELSE 0]]

\* The weights of one pattern: pattern * weights, divided by its sum over
\* the components (in 1/1000).
weights_of_pattern(row, weights) ==
    [f \in DOMAIN weights |->
        LET w == [k \in Components |-> IF k \in row THEN weights[f][k] ELSE 0]
        IN  [k \in Components |-> (1000 * w[k]) \div SumF(w, Components)]]

\* Mutant: the weights per pattern are handed to the objects by position,
\* without the inverse mapping of np.unique.
normalize_weights_by_position(weights, has) ==
    LET pattern == unique({has[o] : o \in DOMAIN has})
        w_per_pattern == [i \in DOMAIN pattern |-> weights_of_pattern(pattern[i], weights)]
    IN  [o \in DOMAIN has |-> w_per_pattern[(o % Len(pattern)) + 1]]

\* normalize_weights: the distinct patterns of has_components are found, the
\* weights are normalised once per pattern over the components the pattern
\* has, and each object gets the weights of its pattern.
normalize_weights(weights, has) ==
    LET pattern == unique({has[o] : o \in DOMAIN has})
        pattern_inv == [o \in DOMAIN has |->
                          CHOOSE i \in DOMAIN pattern : pattern[i] = has[o]]
        w_per_pattern == [i \in DOMAIN pattern |-> weights_of_pattern(pattern[i], weights)]
    IN  [o \in DOMAIN has |-> w_per_pattern[pattern_inv[o]]]

\* sample.cache.<type>.has_components.value
HasComponents(cl) == [o \in Objects |-> has_components(cl, o)]

\* update_weights(sample, caching=False) on the initial weights of the one
\* categorical feature
update_weights(cl) ==
    LET w_normed == normalize_weights([f \in FeaturesOf("categorical") |->
                                          generate_initial_weights],
                                      HasComponents(cl))
    IN  [o \in Objects |-> w_normed[o][0]]

\* sample_source_from_prior: one component per observation, drawn among the
\* components present at the object.
sample_source_from_prior(cl) ==
    {[o \in Objects |-> {k[o]}] :
     k \in {f \in [Objects -> Components] : \A o \in Objects : f[o] \in has_components(cl, o)}}

\* Mutant: the source of missing observations is kept.
source_na_kept(src) == src

\* line 136: source[self.data.features.na_values] = 0
source_na_zeroed(src) == [o \in Objects |-> IF na_values(o) THEN {} ELSE src[o]]

\* generate_sample_attempt, lines 105-142: the sample is built, everything is
\* marked changed, the source is drawn from the prior, zeroed where the
\* observation is missing, and set, the counts are recalculated; the source
\* is asserted to lie on components of positive weight.
BuildSample ==
    /\ pc = "seeded"
    /\ \E prior \in sample_source_from_prior(clusters) :
          LET src == source_na_zeroed(prior)
              w == update_weights(clusters)
          IN  /\ Apply(SetNote, clusters, src, AllGroups)
              /\ pc' = IF \A o \in Objects : \A k \in src[o] : w[o][k] > 0
                       THEN "built"
                       ELSE "AssertionError"
    /\ UNCHANGED <<round, i_c, grown>>
    /\ Config

\* lines 157-159: a full Gibbs sweep over the source
FullSourceStep ==
    /\ pc = "built"
    /\ \E src \in LegalSources(clusters) : Apply(SetNote, clusters, src, AllGroups)
    /\ pc' = IF initial_size > 1 /\ n_clusters > 0 THEN "grow" ELSE "grown"
    /\ round' = 1
    /\ i_c' = 0
    /\ UNCHANGED grown
    /\ Config

\* The grow proposal of the cluster operator on cluster c: a free object
\* joins the cluster, if it is below max_size, and its source is resampled,
\* or the proposal is rejected and the sample stays as it is.
grow_cluster(c) ==
    \/ /\ Cardinality(clusters[c]) < max_size
       /\ \E o \in Free(clusters), k \in Components :
             Mutate([clusters EXCEPT ![c] = @ \cup {o}],
                    [source EXCEPT ![o] = SourceOf(o, k)])
    \/ UNCHANGED <<n_objects, n_clusters, clusters, source, sufficient_statistics,
                   group_likelihoods, component_likelihoods, last>>

\* Mutant: each cluster is grown to the end before the next one starts.
GrowRound_by_cluster ==
    /\ pc = "grow"
    /\ grow_cluster(i_c)
    /\ grown' = Append(grown, i_c)
    /\ IF round + 1 < initial_size
       THEN /\ round' = round + 1
            /\ UNCHANGED <<i_c, pc>>
       ELSE IF i_c + 1 < n_clusters
       THEN /\ i_c' = i_c + 1
            /\ round' = 1
            /\ UNCHANGED pc
       ELSE /\ i_c' = 0
            /\ round' = round + 1
            /\ pc' = "grown"
    /\ Config

\* lines 161-163: for _ in range(1, initial_size): for i_c in range(n_clusters)
GrowRound ==
    /\ pc = "grow"
    /\ grow_cluster(i_c)
    /\ grown' = Append(grown, i_c)
    /\ IF i_c + 1 < n_clusters
       THEN /\ i_c' = i_c + 1
            /\ UNCHANGED <<round, pc>>
       ELSE /\ i_c' = 0
            /\ round' = round + 1
            /\ pc' = IF round + 1 < initial_size THEN "grow" ELSE "grown"
    /\ Config

\* lines 165-167
FullSourceStep2 ==
    /\ pc = "grown"
    /\ \E src \in LegalSources(clusters) : Apply(SetNote, clusters, src, AllGroups)
    /\ pc' = IF initial_cluster_steps /\ n_clusters > 0 THEN "steps" ELSE "finish"
    /\ i_c' = 0
    /\ UNCHANGED <<round, grown>>
    /\ Config

\* lines 169-171: grow(sample, cluster_operator, i_c), which returns the
\* sample of an accepted proposal or raises ClusterError.
ClusterStep ==
    /\ pc = "steps"
    /\ \/ /\ Cardinality(clusters[i_c]) < max_size
          /\ \E o \in Free(clusters), k \in Components :
                Mutate([clusters EXCEPT ![i_c] = @ \cup {o}],
                       [source EXCEPT ![o] = SourceOf(o, k)])
          /\ i_c' = i_c + 1
          /\ pc' = IF i_c + 1 < n_clusters THEN "steps" ELSE "finish"
       \/ /\ pc' = "ClusterError"
          /\ UNCHANGED <<n_objects, n_clusters, clusters, source, sufficient_statistics,
                         group_likelihoods, component_likelihoods, last, i_c>>
    /\ UNCHANGED <<round, grown>>
    /\ Config

\* Mutant: the sample is returned without everything_changed().
Finish_unmarked ==
    /\ pc = "finish"
    /\ Apply(Mutated("mutation"), clusters, source, NoGroups)
    /\ pc' = "done"
    /\ UNCHANGED <<round, i_c, grown>>
    /\ Config

\* lines 173-174: everything_changed(); return sample
Finish ==
    /\ pc = "finish"
    /\ everything_changed(Mutated("mutation"))
    /\ pc' = "done"
    /\ UNCHANGED <<round, i_c, grown>>
    /\ Config

\* MCMCSetup.sample: the sampler starts from the initial sample
StartSampling ==
    /\ pc = "done"
    /\ pc' = "sampling"
    /\ UNCHANGED <<n_objects, n_clusters, clusters, source, sufficient_statistics,
                   group_likelihoods, component_likelihoods, last, round, i_c, grown>>
    /\ Config

NextInitializer ==
    \/ InitializeClusters
    \/ BuildSample
    \/ FullSourceStep
    \/ GrowRound
    \/ FullSourceStep2
    \/ ClusterStep
    \/ Finish
    \/ StartSampling
    \/ Mutation

SpecInitializer == InitInitializer /\ [][NextInitializer]_vars

\* The last operator of generate_sample_attempt has evaluated the likelihood
\* of the sample it worked on with caching: the caches are clean afterwards.
OperatorLikelihood ==
    /\ pc = "finish"
    /\ ~AllClean
    /\ group_likelihoods' =
          total_log_likelihood(group_likelihoods, clusters, source,
                               sufficient_statistics, TRUE).group_likelihoods
    /\ component_likelihoods' =
          pointwise_likelihood(component_likelihoods, clusters, sufficient_statistics,
                               TRUE, NoRaise).cell
    /\ last' = Mutated("operator_likelihood")
    /\ UNCHANGED <<n_objects, n_clusters, clusters, source, sufficient_statistics,
                   pc, round, i_c, grown>>
    /\ Config

\* The first likelihood evaluation on the sample generate_sample_attempt
\* returned: the likelihood of the groups and the pointwise likelihood.
EvaluateSample(caching) ==
    /\ pc = "done"
    /\ LET r == total_log_likelihood(group_likelihoods, clusters, source,
                                     sufficient_statistics, caching)
           p == pointwise_likelihood(component_likelihoods, clusters,
                                     sufficient_statistics, caching, NoRaise)
       IN  /\ group_likelihoods' = r.group_likelihoods
           /\ sufficient_statistics' = r.sufficient_statistics
           /\ component_likelihoods' = p.cell
           /\ last' = Note("likelihood", caching, FALSE, r.changed, r.ret)
                      @@ [groups |-> what_changed(group_likelihoods["conf"],
                                                  "sufficient_stats", caching, Groups),
                          pointwise |-> p.changed]
    /\ pc' = "sampling"
    /\ UNCHANGED <<n_objects, n_clusters, clusters, source, round, i_c, grown>>
    /\ Config

\* generate_sample_attempt with the likelihood evaluations of its operators,
\* and the first evaluation on the sample it returns
NextAttempt ==
    \/ InitializeClusters
    \/ BuildSample
    \/ FullSourceStep
    \/ GrowRound
    \/ FullSourceStep2
    \/ ClusterStep
    \/ Finish
    \/ OperatorLikelihood
    \/ \E caching \in BOOLEAN : EvaluateSample(caching)

SpecAttempt == InitInitializer /\ [][NextAttempt]_vars

------------------------------------------------------------------------------
\* generate_sample: the best of several attempts

MaxAttempts == 2

\* The scores self.model(sample) can give.
Scores == {NegInf, NaN, Finite(0 - 2), Finite(0 - 1)}

\* MCMCSetup.sample is called.
InitSetup ==
    /\ n_objects = NObjects
    /\ n_clusters = 1
    /\ initial_size \in 1..2
    /\ initial_cluster_steps \in BOOLEAN
    /\ clusters = [c \in Clusters |-> {}]
    /\ source = [o \in Objects |-> {}]
    /\ sufficient_statistics = recalculate_feature_counts(clusters, source)
    /\ group_likelihoods = NewGroupLikelihoods
    /\ component_likelihoods = NewComponentLikelihoods
    /\ last = Mutated("mutation")
    /\ pc = "setup"
    /\ round = 0
    /\ i_c = 0
    /\ grown = <<>>
    /\ min_size = 1
    /\ max_size = NObjects
    /\ adj_mat = Path(n_objects)
    /\ initialization_attempts \in (0 - 1)..MaxAttempts
    /\ GrowerIdle
    /\ SelectIdle
    /\ EngineIdle

\* MCMCSetup.sample, lines 65-93: an initial sample is given or loaded from
\* the previous results, and the sampler starts from it; or the initializer
\* is built and asked for a sample.
MCMCSetupSample ==
    /\ pc = "setup"
    /\ \/ /\ \E cl \in initialize_clusters(0, [c \in Clusters |-> {}], Objects) :
                \E src \in LegalSources(cl) :
                   Apply(Mutated("mutation"), cl, src, AllGroups)
          /\ pc' = "sampling"
       \/ /\ pc' = "call"
          /\ UNCHANGED <<n_objects, n_clusters, clusters, source, sufficient_statistics,
                         group_likelihoods, component_likelihoods, last>>
    /\ UNCHANGED <<round, i_c, grown>>
    /\ Config

\* generate_sample, lines 88-90
GenerateSample ==
    /\ pc = "call"
    /\ best_sample' = 0
    /\ best_lh' = NegInf
    /\ pc' = IF initialization_attempts > 0 THEN "start" ELSE "AssertionError"
    /\ UNCHANGED <<n_objects, n_clusters, clusters, source, sufficient_statistics,
                   group_likelihoods, component_likelihoods, last, initial_size,
                   initial_cluster_steps, round, i_c, grown, min_size, max_size,
                   adj_mat, occupied, cluster, attempts, restart, tries,
                   initialization_attempts, lhs, Engines>>

\* generate_sample, lines 92-99: the attempt is scored and kept if its score
\* is greater than the best so far; the next attempt starts on a new sample,
\* or the best sample is returned.
ScoreAttempt ==
    /\ pc = "done"
    /\ \E lh \in Scores :
          /\ lhs' = Append(lhs, lh)
          /\ IF Greater(lh, best_lh)
             THEN /\ best_sample' = Len(lhs) + 1
                  /\ best_lh' = lh
             ELSE UNCHANGED <<best_sample, best_lh>>
    /\ IF Len(lhs) + 1 < initialization_attempts
       THEN /\ pc' = "start"
            /\ clusters' = [c \in Clusters |-> {}]
            /\ source' = [o \in Objects |-> {}]
            /\ sufficient_statistics' =
                  recalculate_feature_counts([c \in Clusters |-> {}], [o \in Objects |-> {}])
            /\ group_likelihoods' = NewGroupLikelihoods
            /\ component_likelihoods' = NewComponentLikelihoods
            /\ last' = Mutated("mutation")
            /\ round' = 0
            /\ i_c' = 0
            /\ grown' = <<>>
       ELSE /\ pc' = "returned"
            /\ UNCHANGED <<clusters, source, sufficient_statistics, group_likelihoods,
                           component_likelihoods, last, round, i_c, grown>>
    /\ UNCHANGED <<n_objects, n_clusters, initial_size, initial_cluster_steps,
                   min_size, max_size, adj_mat, occupied, cluster, attempts, restart,
                   tries, initialization_attempts, Engines>>

NextSelect ==
    \/ MCMCSetupSample
    \/ GenerateSample
    \/ InitializeClusters
    \/ BuildSample
    \/ FullSourceStep
    \/ GrowRound
    \/ FullSourceStep2
    \/ ClusterStep
    \/ Finish
    \/ ScoreAttempt

SpecSelect == InitSetup /\ [][NextSelect]_vars

------------------------------------------------------------------------------
\* Growing a random cluster of size k

\* The symmetric adjacency matrices without self-loops on n objects.
Graphs(n) ==
    {[o \in 0..(n - 1) |-> {q \in 0..(n - 1) : <<o, q>> \in E \/ <<q, o>> \in E}] :
     E \in SUBSET {e \in (0..(n - 1)) \X (0..(n - 1)) : e[1] < e[2]}}

\* Mutant: the adjacency is ignored.
get_neighbours_any(zone, already_in_zone, adj) == DOMAIN adj \ already_in_zone

\* Mutant: the objects of other clusters count as neighbours.
get_neighbours_of_zone(zone, already_in_zone, adj) ==
    {o \in DOMAIN adj : adj[o] \cap zone # {} /\ o \notin zone}

\* get_neighbours: adj_mat.dot(zone) and not already_in_zone
get_neighbours(zone, already_in_zone, adj) ==
    {o \in DOMAIN adj : adj[o] \cap zone # {} /\ o \notin already_in_zone}

\* What a call of grow_cluster_of_size_k leaves behind: whether it raised
\* ClusterError, its cluster, and already_in_cluster, which it changes in place.
Outcome(raised, cl, already_in_cluster) ==
    [raised |-> raised, cluster |-> cl, already_in_cluster |-> already_in_cluster]

\* Mutant: a cluster without free neighbours is returned as it is.
RECURSIVE extend_cluster_partial(_, _, _)
extend_cluster_partial(n, cl, already_in_cluster) ==
    IF n <= 0 THEN {Outcome(FALSE, cl, already_in_cluster)}
    ELSE LET neighbours == get_neighbours(cl, already_in_cluster, adj_mat) IN
         IF neighbours = {} THEN {Outcome(FALSE, cl, already_in_cluster)}
         ELSE UNION {extend_cluster_partial(n - 1, cl \cup {site_new},
                                            already_in_cluster \cup {site_new}) :
                     site_new \in neighbours}

\* lines 311-317, for _ in range(k - 1) with n iterations to go: a random
\* neighbour joins the cluster, ClusterError when there is none.
RECURSIVE extend_cluster(_, _, _)
extend_cluster(n, cl, already_in_cluster) ==
    IF n <= 0 THEN {Outcome(FALSE, cl, already_in_cluster)}
    ELSE LET neighbours == get_neighbours(cl, already_in_cluster, adj_mat) IN
         IF neighbours = {} THEN {Outcome(TRUE, cl, already_in_cluster)}
         ELSE UNION {extend_cluster(n - 1, cl \cup {site_new},
                                    already_in_cluster \cup {site_new}) :
                     site_new \in neighbours}

\* Mutant: the cluster is grown on a copy of already_in_cluster.
grow_cluster_of_size_k_on_copy(k, already_in_cluster) ==
    LET sites_free == Objects \ already_in_cluster
        outs == IF sites_free = {} THEN {Outcome(TRUE, {}, already_in_cluster)}
                ELSE UNION {extend_cluster(k - 1, {i}, already_in_cluster \cup {i}) :
                            i \in sites_free}
    IN  {Outcome(out.raised, out.cluster, already_in_cluster) : out \in outs}

\* grow_cluster_of_size_k: the outcomes the random draws can give.
grow_cluster_of_size_k(k, already_in_cluster) ==
    LET sites_free == Objects \ already_in_cluster IN
    IF sites_free = {} THEN {Outcome(TRUE, {}, already_in_cluster)}
    ELSE UNION {extend_cluster(k - 1, {i}, already_in_cluster \cup {i}) : i \in sites_free}

\* The note of a call grow_cluster_of_size_k(k, already_in_cluster).
Called(k, already_in_cluster) ==
    [op |-> "grow_cluster_of_size_k", k |-> k, already_in_cluster |-> already_in_cluster]

\* A call of grow_cluster_of_size_k on any network, occupancy and k.
InitGrowK ==
    /\ n_objects \in 1..NObjects
    /\ n_clusters = 1
    /\ initial_size \in 1..MaxInitialSize
    /\ initial_cluster_steps = FALSE
    /\ clusters = [c \in Clusters |-> {}]
    /\ source = [o \in Objects |-> {}]
    /\ sufficient_statistics = recalculate_feature_counts(clusters, source)
    /\ group_likelihoods = NewGroupLikelihoods
    /\ component_likelihoods = NewComponentLikelihoods
    /\ last = Mutated("mutation")
    /\ pc = "call"
    /\ round = 0
    /\ i_c = 0
    /\ grown = <<>>
    /\ min_size = 1
    /\ max_size = NObjects
    /\ adj_mat \in Graphs(n_objects)
    /\ occupied \in SUBSET Objects
    /\ cluster = {}
    /\ attempts = 0
    /\ restart = FALSE
    /\ tries = 0
    /\ initialization_attempts = 1
    /\ SelectIdle
    /\ EngineIdle

GrowClusterOfSizeK ==
    /\ pc = "call"
    /\ \E out \in grow_cluster_of_size_k(initial_size, occupied) :
          /\ cluster' = out.cluster
          /\ occupied' = out.already_in_cluster
          /\ pc' = IF out.raised THEN "ClusterError" ELSE "returned"
    /\ last' = Called(initial_size, occupied)
    /\ UNCHANGED <<n_objects, n_clusters, clusters, source, sufficient_statistics,
                   group_likelihoods, component_likelihoods, initial_size,
                   initial_cluster_steps, round, i_c, grown, min_size, max_size,
                   adj_mat, attempts, restart, tries, initialization_attempts,
                   lhs, best_lh, best_sample, Engines>>

NextGrowK == GrowClusterOfSizeK

SpecGrowK == InitGrowK /\ [][NextGrowK]_vars

------------------------------------------------------------------------------
\* grow_random_clusters

NSites == 6

MaxK == 4

\* max_attempts = 1000
max_attempts == 1000

\* attempts % 20 == 0
reduce_every == 20

\* self.initial_size > 3
smallest_size == 3

Min(S) == CHOOSE x \in S : \A y \in S : x <= y

\* A network of n objects: the first j are isolated, the others form a path.
IsolatedThenPath(j, n) ==
    [o \in 0..(n - 1) |-> IF o < j THEN {} ELSE {o - 1, o + 1} \cap j..(n - 1)]

\* The note of a call of grow_cluster_of_size_k in grow_random_clusters:
\* whether it raised ClusterError, and how many calls in a row have raised.
Grew(raised, failed_in_a_row) ==
    [op |-> "grow_random_clusters", raised |-> raised, failed_in_a_row |-> failed_in_a_row]

InitGrower ==
    /\ n_objects = NSites
    /\ n_clusters \in 0..NClusters
    /\ initial_size \in 1..MaxK
    /\ initial_cluster_steps = FALSE
    /\ clusters = [c \in Clusters |-> {}]
    /\ source = [o \in Objects |-> {}]
    /\ sufficient_statistics = recalculate_feature_counts(clusters, source)
    /\ group_likelihoods = NewGroupLikelihoods
    /\ component_likelihoods = NewComponentLikelihoods
    /\ last = Grew(FALSE, 0)
    /\ pc = "call"
    /\ round = 0
    /\ i_c = 0
    /\ grown = <<>>
    /\ min_size = 1
    /\ max_size = NSites
    /\ adj_mat \in {IsolatedThenPath(j, n_objects) : j \in 0..1}
    /\ initialization_attempts = 1
    /\ GrowerIdle
    /\ SelectIdle
    /\ EngineIdle

\* What grow_random_clusters leaves alone.
GrowerFrame ==
    UNCHANGED <<n_objects, n_clusters, source, sufficient_statistics,
                group_likelihoods, component_likelihoods, initial_cluster_steps,
                round, grown, min_size, max_size, adj_mat, tries,
                initialization_attempts, lhs, best_lh, best_sample, Engines>>

\* lines 233-246: without clusters the empty matrix is returned at once.
EnterGrowRandomClusters ==
    /\ pc = "call"
    /\ pc' = IF n_clusters = 0 THEN "returned" ELSE "for"
    /\ UNCHANGED <<clusters, last, initial_size, i_c, occupied, cluster, attempts, restart>>
    /\ GrowerFrame

\* lines 248-255: the top of while True; the for loop starts at
\* n_initialized, which is always 0.
WhileTop ==
    /\ pc = "while"
    /\ IF restart
       THEN /\ occupied' = {}
            /\ clusters' = [c \in Clusters |-> {}]
            /\ restart' = FALSE
       ELSE UNCHANGED <<occupied, clusters, restart>>
    /\ i_c' = 0
    /\ pc' = "for"
    /\ UNCHANGED <<last, initial_size, cluster, attempts>>
    /\ GrowerFrame

\* Mutant: the ClusterError is not caught.
GrowNextCluster_uncaught ==
    /\ pc = "for"
    /\ \E out \in grow_cluster_of_size_k(initial_size, occupied) :
       /\ occupied' = out.already_in_cluster
       /\ IF ~out.raised
          THEN /\ cluster' = out.cluster
               /\ clusters' = [clusters EXCEPT ![i_c] = out.cluster]
               /\ i_c' = i_c + 1
               /\ pc' = IF i_c + 1 < n_clusters THEN "for" ELSE "returned"
               /\ last' = Grew(FALSE, 0)
               /\ UNCHANGED <<attempts, initial_size, restart>>
          ELSE /\ last' = Grew(TRUE, Min({last.failed_in_a_row + 1, reduce_every}))
               /\ pc' = "ClusterError"
               /\ UNCHANGED <<cluster, clusters, i_c, attempts, initial_size, restart>>
    /\ GrowerFrame

\* Mutant: the size is reduced after 20 failures in a row.
GrowNextCluster_consecutive ==
    /\ pc = "for"
    /\ \E out \in grow_cluster_of_size_k(initial_size, occupied) :
       /\ occupied' = out.already_in_cluster
       /\ IF ~out.raised
          THEN /\ cluster' = out.cluster
               /\ clusters' = [clusters EXCEPT ![i_c] = out.cluster]
               /\ i_c' = i_c + 1
               /\ pc' = IF i_c + 1 < n_clusters THEN "for" ELSE "returned"
               /\ last' = Grew(FALSE, 0)
               /\ UNCHANGED <<attempts, initial_size, restart>>
          ELSE /\ last' = Grew(TRUE, Min({last.failed_in_a_row + 1, reduce_every}))
               /\ UNCHANGED <<cluster, clusters, i_c>>
               /\ IF attempts < max_attempts
                  THEN /\ attempts' = attempts + 1
                       /\ IF last.failed_in_a_row + 1 = reduce_every /\ initial_size > smallest_size
                          THEN /\ initial_size' = initial_size - 1
                               /\ restart' = TRUE
                          ELSE UNCHANGED <<initial_size, restart>>
                       /\ pc' = "while"
                  ELSE /\ pc' = "ValueError"
                       /\ UNCHANGED <<attempts, initial_size, restart>>
    /\ GrowerFrame

\* lines 255-279: one iteration of the for loop.  grow_cluster_of_size_k
\* changes occupied in place, also when it raises.
GrowNextCluster ==
    /\ pc = "for"
    /\ \E out \in grow_cluster_of_size_k(initial_size, occupied) :
       /\ occupied' = out.already_in_cluster
       /\ IF ~out.raised
          THEN /\ cluster' = out.cluster
               /\ clusters' = [clusters EXCEPT ![i_c] = out.cluster]
               /\ i_c' = i_c + 1
               /\ pc' = IF i_c + 1 < n_clusters THEN "for" ELSE "returned"
               /\ last' = Grew(FALSE, 0)
               /\ UNCHANGED <<attempts, initial_size, restart>>
          ELSE /\ last' = Grew(TRUE, Min({last.failed_in_a_row + 1, reduce_every}))
               /\ UNCHANGED <<cluster, clusters, i_c>>
               /\ IF attempts < max_attempts
                  THEN /\ attempts' = attempts + 1
                       /\ IF (attempts + 1) % reduce_every = 0 /\ initial_size > smallest_size
                          THEN /\ initial_size' = initial_size - 1
                               /\ restart' = TRUE
                          ELSE UNCHANGED <<initial_size, restart>>
                       /\ pc' = "while"
                  ELSE /\ pc' = "ValueError"
                       /\ UNCHANGED <<attempts, initial_size, restart>>
    /\ GrowerFrame

NextGrower ==
    \/ EnterGrowRandomClusters
    \/ WhileTop
    \/ GrowNextCluster

SpecGrower == InitGrower /\ [][NextGrower]_vars /\ WF_vars(NextGrower)

------------------------------------------------------------------------------
\* grow: a grow proposal is repeated until it is accepted

\* for _ in range(20)
GrowTries == 20

\* A call grow(sample, cluster_operator, i_cluster) on a seeded sample.
InitGrow ==
    /\ n_objects \in 1..NObjects
    /\ n_clusters \in 1..NClusters
    /\ initial_size = 1
    /\ initial_cluster_steps = TRUE
    /\ clusters \in initialize_clusters(0, [c \in Clusters |-> {}], Objects)
    /\ source \in LegalSources(clusters)
    /\ sufficient_statistics = recalculate_feature_counts(clusters, source)
    /\ group_likelihoods = NewGroupLikelihoods
    /\ component_likelihoods = NewComponentLikelihoods
    /\ last = Mutated("mutation")
    /\ pc = "grow"
    /\ round = 0
    /\ i_c \in Clusters
    /\ grown = <<>>
    /\ min_size = 1
    /\ max_size \in {1, NObjects}
    /\ adj_mat = Path(n_objects)
    /\ initialization_attempts = 1
    /\ GrowerIdle
    /\ SelectIdle
    /\ EngineIdle

\* What grow leaves alone.
GrowFrame ==
    UNCHANGED <<initial_size, initial_cluster_steps, round, i_c, grown, min_size,
                max_size, adj_mat, occupied, cluster, attempts, restart,
                initialization_attempts, lhs, best_lh, best_sample, Engines>>

Rejected ==
    UNCHANGED <<n_objects, n_clusters, clusters, source, sufficient_statistics,
                group_likelihoods, component_likelihoods, last>>

Accepted(c) ==
    /\ Cardinality(clusters[c]) < max_size
    /\ \E o \in Free(clusters), k \in Components :
          Mutate([clusters EXCEPT ![c] = @ \cup {o}],
                 [source EXCEPT ![o] = SourceOf(o, k)])

\* Mutant: the loop goes on after an accepted proposal.
GrowTry_continue ==
    /\ pc = "grow"
    /\ tries < GrowTries
    /\ tries' = tries + 1
    /\ \/ /\ Accepted(i_c)
          /\ pc' = IF tries + 1 = GrowTries THEN "returned" ELSE pc
       \/ /\ Rejected
          /\ pc' = IF tries + 1 = GrowTries THEN "ClusterError" ELSE pc
    /\ GrowFrame

\* One iteration of the loop of grow: the proposal is called; its sample is
\* returned unless q = Q_REJECT; ClusterError after the last iteration.
GrowTry ==
    /\ pc = "grow"
    /\ tries < GrowTries
    /\ tries' = tries + 1
    /\ \/ /\ Accepted(i_c)
          /\ pc' = "returned"
       \/ /\ Rejected
          /\ pc' = IF tries + 1 = GrowTries THEN "ClusterError" ELSE pc
    /\ GrowFrame

NextGrow == GrowTry

SpecGrow == InitGrow /\ [][NextGrow]_vars /\ WF_vars(NextGrow)

------------------------------------------------------------------------------
\* The normalized weights (update_<type>_weights)

\* The weight vectors of a feature the model draws from.
WeightVectors ==
    {[k \in Components |-> IF k = 0 THEN x ELSE 1000 - x] : x \in {250, 500}}

\* A cell is outdated once an input of it was replaced through its setter.
invalidate(cell) == [cell EXCEPT !.outdated = TRUE]

\* The cell of the normalized weights of a new sample.
NewWeightsCell(ft) ==
    NewCell([o \in Objects |-> [f \in FeaturesOf(ft) |-> [k \in Components |-> 0]]],
            {}, <<>>)

\* Mutant: the weights are normalised only when caching is off and the cell
\* is outdated.
update_type_weights_and(ft, w, caches, cl, caching) ==
    LET cache == caches[ft]
        recompute == (~caching) /\ is_outdated(cache)
        w_normed == normalize_weights(w[ft], HasComponents(cl))
        updated == IF recompute THEN commit(cache, w_normed) ELSE cache
    IN  [caches |-> [caches EXCEPT ![ft] = updated],
         recomputed |-> recompute,
         value |-> updated.value]

\* The body the four update_<type>_weights share, on the weights and the
\* cache of the type ft:
\*   if (not caching) or cache.is_outdated():
\*       cache.update_value(normalize_weights(weights.value, has_components.value))
\*   return cache.value
update_type_weights(ft, w, caches, cl, caching) ==
    LET cache == caches[ft]
        recompute == (~caching) \/ is_outdated(cache)
        w_normed == normalize_weights(w[ft], HasComponents(cl))
        updated == IF recompute THEN commit(cache, w_normed) ELSE cache
    IN  [caches |-> [caches EXCEPT ![ft] = updated],
         recomputed |-> recompute,
         value |-> updated.value]

update_categorical_weights(w, caches, cl, caching) ==
    update_type_weights("categorical", w, caches, cl, caching)

update_gaussian_weights(w, caches, cl, caching) ==
    update_type_weights("gaussian", w, caches, cl, caching)

update_poisson_weights(w, caches, cl, caching) ==
    update_type_weights("poisson", w, caches, cl, caching)

update_logitnormal_weights(w, caches, cl, caching) ==
    update_type_weights("logitnormal", w, caches, cl, caching)

\* The sample of Init with its weights: those of the type under study drawn
\* per feature, the initial weights for the other types.  The source, which
\* the weights do not read, has every observation explained by the confounder.
InitWeights ==
    /\ n_objects = NObjects
    /\ n_clusters = NClusters
    /\ clusters = [c \in 0..(NClusters - 1) |-> {c}]
    /\ source \in {src \in LegalSources(clusters) : \A o \in Objects : 0 \notin src[o]}
    /\ sufficient_statistics = recalculate_feature_counts(clusters, source)
    /\ group_likelihoods = NewGroupLikelihoods
    /\ component_likelihoods = NewComponentLikelihoods
    /\ last = Mutated("mutation")
    /\ pc = "sampling"
    /\ initial_size = 1
    /\ initial_cluster_steps = FALSE
    /\ round = 0
    /\ i_c = 0
    /\ grown = <<>>
    /\ min_size = 1
    /\ max_size = NObjects
    /\ adj_mat = Path(NObjects)
    /\ initialization_attempts = 1
    /\ GrowerIdle
    /\ SelectIdle
    /\ feature_type \in FeatureTypes
    /\ present = FeatureTypes
    /\ invoked = <<>>
    /\ \E mine \in [FeaturesOf(feature_type) -> WeightVectors] :
          sample_weights =
             [ft \in FeatureTypes |->
                IF ft = feature_type THEN mine
                ELSE [f \in FeaturesOf(ft) |-> generate_initial_weights]]
    /\ weights_normalized = [ft \in FeatureTypes |-> NewWeightsCell(ft)]
    /\ ResumeIdle
    /\ PlotIdle

WeightsFrame ==
    UNCHANGED <<pc, initial_size, initial_cluster_steps, round, i_c, grown, Setup,
                feature_type, present, invoked, i_step, results, args, f_stats>>

\* update_<type>_weights(sample, caching) for the type under study
UpdateWeights(caching) ==
    /\ pc = "sampling"
    /\ LET r == CASE feature_type = "categorical" ->
                       update_categorical_weights(sample_weights, weights_normalized,
                                                  clusters, caching)
                  [] feature_type = "gaussian" ->
                       update_gaussian_weights(sample_weights, weights_normalized,
                                               clusters, caching)
                  [] feature_type = "poisson" ->
                       update_poisson_weights(sample_weights, weights_normalized,
                                              clusters, caching)
                  [] OTHER ->
                       update_logitnormal_weights(sample_weights, weights_normalized,
                                                  clusters, caching)
       IN  /\ weights_normalized' = r.caches
           /\ last' = [Note("update_weights", caching, FALSE, {}, 0)
                        EXCEPT !.after = IF is_outdated(weights_normalized[feature_type])
                                         THEN "other" ELSE "clean"]
                      @@ [recomputed |-> r.recomputed, value |-> r.value]
    /\ UNCHANGED <<n_objects, n_clusters, clusters, source, sufficient_statistics,
                   group_likelihoods, component_likelihoods, sample_weights>>
    /\ WeightsFrame

\* sample.<type>.weights.set_value: the weights of a feature are replaced and
\* the normalized weights of the type are outdated.
SetWeights(f, v) ==
    /\ pc = "sampling"
    /\ f \in FeaturesOf(feature_type)
    /\ sample_weights[feature_type][f] # v
    /\ sample_weights' = [sample_weights EXCEPT ![feature_type][f] = v]
    /\ weights_normalized' = [weights_normalized EXCEPT ![feature_type] = invalidate(@)]
    /\ last' = Mutated("set_weights")
    /\ UNCHANGED <<n_objects, n_clusters, clusters, source, sufficient_statistics,
                   group_likelihoods, component_likelihoods>>
    /\ WeightsFrame

\* The grow step of the cluster operator: the object has the cluster
\* component from now on, and the normalized weights of every type are
\* outdated.
GrowClusterWeights(c, o) ==
    /\ pc = "sampling"
    /\ o \in Free(clusters)
    /\ Cardinality(clusters[c]) < max_size
    /\ Mutate([clusters EXCEPT ![c] = @ \cup {o}], source)
    /\ weights_normalized' = [ft \in FeatureTypes |-> invalidate(weights_normalized[ft])]
    /\ UNCHANGED sample_weights
    /\ WeightsFrame

NextWeights ==
    \/ \E caching \in BOOLEAN : UpdateWeights(caching)
    \/ \E f \in {0, 1}, v \in WeightVectors : SetWeights(f, v)
    \/ \E c \in Clusters, o \in Objects : GrowClusterWeights(c, o)

SpecWeights == InitWeights /\ [][NextWeights]_vars

------------------------------------------------------------------------------
\* Resuming a run (MCMCSetup.last_sample)

\* The number of samples the previous run persisted, at most.
MaxSamples == 2

\* The largest id of a persisted sample.
MaxId == 2

\* The clusters a run may have persisted.
PersistedClusters ==
    {[c \in Clusters |-> {c}],
     [c \in Clusters |-> IF c = 0 /\ n_objects > n_clusters THEN {0, n_objects - 1} ELSE {c}]}

\* Results: one row per persisted sample, the ids increasing with the steps
\* at which the samples were logged.
PersistedResults ==
    {r \in UNION {[1..n -> [clusters : PersistedClusters,
                            weights : [FeaturesOf("categorical") -> WeightVectors],
                            sample_id : 0..MaxId]] : n \in 1..MaxSamples} :
        \A i, j \in DOMAIN r : i < j => r[i].sample_id < r[j].sample_id}

\* np.empty(..., dtype=bool): whatever the memory holds.
dummy_source == [Objects -> SUBSET Components]

\* dummy_feature_counts: zeros
dummy_feature_counts ==
    [name \in Names |-> [g \in GroupIdx(name) |-> [s \in States |-> 0]]]

\* impute_source: a component for every observation, among the components
\* the object has; with or without one where the observation is missing.
impute_source(cl) == sample_source_from_prior(cl) \cup LegalSources(cl)

\* Mutant: the step counter of the resumed sample is the last persisted id.
resumed_step_repeated(res) == res[Len(res)].sample_id

\* sample.i_step = results.sample_id[-1] + 1
resumed_step(res) == res[Len(res)].sample_id + 1

\* Mutant: the counts are recalculated before the source is imputed, from
\* the source the sample was constructed with.
impute_and_recalculate_swapped(cl, src) ==
    {[source |-> s, counts |-> recalculate_feature_counts(cl, src)] :
        s \in impute_source(cl)}

\* impute_source(sample, self.model), then
\* recalculate_feature_counts(self.data.features.values, sample)
impute_and_recalculate(cl, src) ==
    {[source |-> s, counts |-> recalculate_feature_counts(cl, s)] :
        s \in impute_source(cl)}

\* MCMCSetup.sample with resume: the results of the previous run are read.
InitResume ==
    /\ n_objects = NObjects
    /\ n_clusters = NClusters
    /\ clusters = [c \in Clusters |-> {}]
    /\ source = [o \in Objects |-> {}]
    /\ sufficient_statistics = recalculate_feature_counts(clusters, source)
    /\ group_likelihoods = NewGroupLikelihoods
    /\ component_likelihoods = NewComponentLikelihoods
    /\ last = Mutated("read_previous_results")
    /\ pc = "last_sample"
    /\ initial_size = 1
    /\ initial_cluster_steps = FALSE
    /\ round = 0
    /\ i_c = 0
    /\ grown = <<>>
    /\ min_size = 1
    /\ max_size = NObjects
    /\ adj_mat = Path(NObjects)
    /\ initialization_attempts = 1
    /\ GrowerIdle
    /\ SelectIdle
    /\ feature_type = "categorical"
    /\ present = {"categorical"}
    /\ invoked = <<>>
    /\ WeightsIdle
    /\ PlotIdle
    /\ i_step = 0
    /\ results \in PersistedResults
    /\ args = [initial_sample |-> FALSE, resume |-> TRUE]

ResumeFrame ==
    UNCHANGED <<n_objects, n_clusters, initial_size, initial_cluster_steps, round,
                i_c, grown, Setup, feature_type, present, invoked, results, args,
                f_stats>>

\* last_sample, lines 141-182: the sample is constructed from the last
\* persisted clusters and weights, a source that was never initialised and
\* zero counts, and its step counter is set.
LastSampleConstruct ==
    /\ pc = "last_sample"
    /\ clusters' = results[Len(results)].clusters
    /\ sample_weights' = [ft \in present |-> results[Len(results)].weights]
    /\ weights_normalized' = [ft \in present |-> NewWeightsCell(ft)]
    /\ source' \in dummy_source
    /\ sufficient_statistics' = dummy_feature_counts
    /\ group_likelihoods' = NewGroupLikelihoods
    /\ component_likelihoods' = NewComponentLikelihoods
    /\ i_step' = resumed_step(results)
    /\ last' = Mutated("from_numpy_arrays")
    /\ pc' = "constructed"
    /\ ResumeFrame

\* last_sample, lines 185-188: the source is imputed, the counts are
\* recalculated, and the sample is returned.
LastSampleReturn ==
    /\ pc = "constructed"
    /\ \E out \in impute_and_recalculate(clusters, source) :
          /\ source' = out.source
          /\ sufficient_statistics' = out.counts
    /\ group_likelihoods' = MarkGroupLikelihoods(group_likelihoods, AllGroups)
    /\ component_likelihoods' = MarkComponentLikelihoods(component_likelihoods, {}, AllGroups)
    /\ last' = Mutated("last_sample")
    /\ pc' = "returned"
    /\ UNCHANGED <<clusters, sample_weights, weights_normalized, i_step>>
    /\ ResumeFrame

NextResume ==
    \/ LastSampleConstruct
    \/ LastSampleReturn

SpecResume == InitResume /\ [][NextResume]_vars

------------------------------------------------------------------------------
\* The starting state of a run (MCMCSetup.sample)

\* Mutant: resume is looked at before the initial sample.
starting_state_resume_first(a) ==
    IF a.resume THEN "resume"
    ELSE IF a.initial_sample THEN "given"
    ELSE "warmup"

\* lines 65-72: if initial_sample is not None ... elif resume ... else
starting_state(a) ==
    IF a.initial_sample THEN "given"
    ELSE IF a.resume THEN "resume"
    ELSE "warmup"

\* MCMCSetup.sample is called with or without an initial sample and with or
\* without resume; results of a previous run are there to be read.
InitStart ==
    /\ n_objects = NObjects
    /\ n_clusters = NClusters
    /\ args \in [initial_sample : BOOLEAN, resume : BOOLEAN]
    /\ IF args.initial_sample
       THEN /\ clusters \in PersistedClusters
            /\ source \in LegalSources(clusters)
            /\ i_step \in 0..MaxId
       ELSE /\ clusters = [c \in Clusters |-> {}]
            /\ source = [o \in Objects |-> {}]
            /\ i_step = 0
    /\ sufficient_statistics = recalculate_feature_counts(clusters, source)
    /\ group_likelihoods = NewGroupLikelihoods
    /\ component_likelihoods = NewComponentLikelihoods
    /\ last = Mutated("sample")
    /\ pc = "sample"
    /\ initial_size = 1
    /\ initial_cluster_steps = FALSE
    /\ round = 0
    /\ i_c = 0
    /\ grown = <<>>
    /\ min_size = 1
    /\ max_size = NObjects
    /\ adj_mat = Path(NObjects)
    /\ initialization_attempts = 1
    /\ GrowerIdle
    /\ SelectIdle
    /\ feature_type = "categorical"
    /\ present = {"categorical"}
    /\ invoked = <<>>
    /\ WeightsIdle
    /\ PlotIdle
    /\ results \in PersistedResults

\* lines 65-72: the branch is taken; the previous results are read only on
\* the resume branch.
TakeStartingState ==
    /\ pc = "sample"
    /\ pc' = CASE starting_state(args) = "given" -> "sampler"
               [] starting_state(args) = "resume" -> "last_sample"
               [] OTHER -> "warmup"
    /\ last' = Mutated(starting_state(args))
    /\ UNCHANGED <<clusters, source, sufficient_statistics, group_likelihoods,
                   component_likelihoods, sample_weights, weights_normalized, i_step>>
    /\ ResumeFrame

\* lines 73-94: the warm-up chains run from the samples of the initializer
\* and leave a sample that has made its warm-up steps.
WarmUp ==
    /\ pc = "warmup"
    /\ \E cl \in initialize_clusters(0, [c \in Clusters |-> {}], Objects) :
          \E src \in LegalSources(cl) : Apply(Mutated("warmup"), cl, src, AllGroups)
    /\ i_step' \in 1..MaxId
    /\ pc' = "warmed"
    /\ UNCHANGED <<initial_size, initial_cluster_steps, round, i_c, grown, Setup,
                   feature_type, present, invoked, sample_weights, weights_normalized,
                   results, args, f_stats>>

\* line 95: initial_sample.i_step = 0
ResetStep ==
    /\ pc = "warmed"
    /\ i_step' = 0
    /\ last' = Mutated("i_step")
    /\ pc' = "sampler"
    /\ UNCHANGED <<clusters, source, sufficient_statistics, group_likelihoods,
                   component_likelihoods, sample_weights, weights_normalized>>
    /\ ResumeFrame

\* lines 97-110: the main sampler is built and started from the initial sample.
StartSampler ==
    /\ pc \in {"sampler", "returned"}
    /\ pc' = "sampling"
    /\ last' = Mutated("generate_samples")
    /\ UNCHANGED <<clusters, source, sufficient_statistics, group_likelihoods,
                   component_likelihoods, sample_weights, weights_normalized, i_step>>
    /\ ResumeFrame

NextStart ==
    \/ TakeStartingState
    \/ LastSampleConstruct
    \/ LastSampleReturn
    \/ WarmUp
    \/ ResetStep
    \/ StartSampler

SpecStart == InitStart /\ [][NextStart]_vars

------------------------------------------------------------------------------
\* Reading the statistics of a run (Plot.read_stats)

\* Bounds: the data rows of a stats file and the values of its cells
MaxRows == 2
MaxValue == 2

\* The files read: ground_truth/stats.txt and <experiment_path>/stats_<scenario>.txt
TxtPaths == {"ground_truth/stats.txt", "results/stats_sim.txt"}

\* The columns every stats file has, and the columns of the parameters
ScoreKeys == {"posterior", "likelihood", "prior", "recall", "precision"}
ParamKeys == {"w_universal_f1", "w_contact_f1", "alpha_f1", "beta_f1",
              "gamma_f1", "post_z1", "lh_z1", "prior_z1"}

\* str.startswith
startswith(key, prefix) ==
    /\ Len(key) >= Len(prefix)
    /\ SubSeq(key, 1, Len(prefix)) = prefix

\* <sub> in <txt>
contains(txt, sub) ==
    \E i \in 1..(Len(txt) - Len(sub) + 1) : SubSeq(txt, i, i + Len(sub) - 1) = sub

\* str.rsplit('_', 1)[1]: what follows the last underscore
rsplit_last(key) ==
    LET i == CHOOSE j \in 1..Len(key) :
                 /\ SubSeq(key, j, j) = "_"
                 /\ \A l \in (j + 1)..Len(key) : SubSeq(key, l, l) # "_"
    IN  SubSeq(key, i + 1, Len(key))

\* param_dict[key] = value
SetItem(param_dict, key, value) ==
    [x \in DOMAIN param_dict \cup {key} |->
        IF x = key THEN value ELSE param_dict[x]]

\* lines 191-201: the ground truth keeps the value of the row; any other file
\* appends the value to the list of a key it has seen, and makes an empty
\* list for a key it sees for the first time.
read_dictionary(txt_path, lines, current_key, search_key, param_dict) ==
    IF contains(txt_path, "ground_truth")
    THEN IF startswith(current_key, search_key)
         THEN SetItem(param_dict, current_key, lines[current_key])
         ELSE param_dict
    ELSE IF startswith(current_key, search_key)
         THEN IF current_key \in DOMAIN param_dict
              THEN SetItem(param_dict, current_key,
                           Append(param_dict[current_key], lines[current_key]))
              ELSE SetItem(param_dict, current_key, <<>>)
         ELSE param_dict

\* for key in lines: param_dict = Plot.read_dictionary(...); a key changes
\* the entry of that key only, so the order of the keys makes no difference.
RECURSIVE read_keys(_, _, _, _, _)
read_keys(txt_path, lines, keys, search_key, param_dict) ==
    IF keys = {} THEN param_dict
    ELSE LET key == CHOOSE k \in keys : TRUE
         IN  read_keys(txt_path, lines, keys \ {key}, search_key,
                       read_dictionary(txt_path, lines, key, search_key, param_dict))

\* lines 208-229: the statistics of a simulation, made anew from every row
read_simulation_stats(txt_path, lines) ==
    IF contains(txt_path, "ground_truth")
    THEN [recall |-> <<>>, precision |-> <<>>,
          true_posterior |-> lines["posterior"],
          true_likelihood |-> lines["likelihood"],
          true_prior |-> lines["prior"],
          true_weights |-> read_keys(txt_path, lines, DOMAIN lines, "w_", <<>>),
          true_alpha |-> read_keys(txt_path, lines, DOMAIN lines, "alpha_", <<>>),
          true_beta |-> read_keys(txt_path, lines, DOMAIN lines, "beta_", <<>>),
          true_gamma |-> read_keys(txt_path, lines, DOMAIN lines, "gamma_", <<>>)]
    ELSE [recall |-> <<lines["recall"]>>, precision |-> <<lines["precision"]>>,
          true_posterior |-> 0, true_likelihood |-> 0, true_prior |-> 0,
          true_weights |-> <<>>, true_alpha |-> <<>>, true_beta |-> <<>>,
          true_gamma |-> <<>>]

\* The row of the file that csv.DictReader yields: column -> cell. The cells
\* of one row hold the same value.
Lines(f, r) == [key \in f.fieldnames |-> f.rows[r]]

\* lines 270-278: read_stats is called on a file with or without the
\* statistics of a simulation; its lists and dictionaries are empty.
InitPlot ==
    /\ n_objects = NObjects
    /\ n_clusters = 0
    /\ clusters = [c \in Clusters |-> {}]
    /\ source = [o \in Objects |-> {}]
    /\ sufficient_statistics = recalculate_feature_counts(clusters, source)
    /\ group_likelihoods = NewGroupLikelihoods
    /\ component_likelihoods = NewComponentLikelihoods
    /\ last = Mutated("read_stats")
    /\ pc = "read_stats"
    /\ initial_size = 1
    /\ initial_cluster_steps = FALSE
    /\ round = 0
    /\ i_c = 0
    /\ grown = <<>>
    /\ min_size = 1
    /\ max_size = NObjects
    /\ adj_mat = Path(NObjects)
    /\ initialization_attempts = 1
    /\ GrowerIdle
    /\ SelectIdle
    /\ feature_type = "categorical"
    /\ present = {"categorical"}
    /\ invoked = <<>>
    /\ WeightsIdle
    /\ ResumeIdle
    /\ \E txt_path \in TxtPaths, simulation_flag \in BOOLEAN,
          params \in SUBSET ParamKeys, n \in 0..MaxRows :
          \E rows \in [1..n -> 1..MaxValue] :
             f_stats = [txt_path |-> txt_path, simulation_flag |-> simulation_flag,
                        fieldnames |-> ScoreKeys \cup params, rows |-> rows,
                        line_num |-> 0,
                        posterior |-> <<>>, likelihood |-> <<>>, prior |-> <<>>,
                        weights |-> <<>>, alpha |-> <<>>, beta |-> <<>>,
                        gamma |-> <<>>, posterior_single_zones |-> <<>>,
                        likelihood_single_zones |-> <<>>,
                        prior_single_zones |-> <<>>,
                        simulation |-> "None", results |-> "None"]

PlotFrame ==
    UNCHANGED <<n_objects, n_clusters, clusters, source, sufficient_statistics,
                group_likelihoods, component_likelihoods, initial_size,
                initial_cluster_steps, round, i_c, grown, Setup, feature_type,
                present, invoked, sample_weights, weights_normalized, i_step,
                results, args>>

\* lines 279-295: one row of the file is read
ReadRow ==
    /\ pc = "read_stats"
    /\ f_stats.line_num < Len(f_stats.rows)
    /\ LET f == f_stats
           lines == Lines(f, f.line_num + 1)
           read(search_key, param_dict) ==
               read_keys(f.txt_path, lines, DOMAIN lines, search_key, param_dict)
       IN  f_stats' =
             [f EXCEPT
                !.line_num = @ + 1,
                !.posterior = Append(@, lines["posterior"]),
                !.likelihood = Append(@, lines["likelihood"]),
                !.prior = Append(@, lines["prior"]),
                !.weights = read("w_", @),
                !.alpha = read("alpha_", @),
                !.beta = read("beta_", @),
                !.gamma = read("gamma_", @),
                !.posterior_single_zones = read("post_", @),
                !.likelihood_single_zones = read("lh_", @),
                !.prior_single_zones = read("prior_", @),
                !.simulation = IF f.simulation_flag
                               THEN read_simulation_stats(f.txt_path, lines)
                               ELSE @]
    /\ last' = Mutated("read_row")
    /\ pc' = pc
    /\ PlotFrame

\* lines 298-301: the names of the features, from the keys of the universal
\* weights (one such key at most here, so the list is a set)
feature_names(weights) ==
    {rsplit_last(key) : key \in {k \in DOMAIN weights : contains(k, "universal")}}

\* lines 235-262: the ground truth binds the true values, any other file
\* the lists and dictionaries that were read
bind_stats(f) ==
    IF contains(f.txt_path, "ground_truth")
    THEN [true |-> f.simulation]
    ELSE [posterior |-> f.posterior, likelihood |-> f.likelihood,
          prior |-> f.prior, weights |-> f.weights, alpha |-> f.alpha,
          beta |-> f.beta, gamma |-> f.gamma,
          posterior_single_zones |-> f.posterior_single_zones,
          likelihood_single_zones |-> f.likelihood_single_zones,
          prior_single_zones |-> f.prior_single_zones,
          simulation |-> f.simulation,
          feature_names |-> feature_names(f.weights)]

\* lines 303-305: after the last row the statistics are bound to self.results
BindStats ==
    /\ pc = "read_stats"
    /\ f_stats.line_num = Len(f_stats.rows)
    /\ f_stats' = [f_stats EXCEPT !.results = bind_stats(f_stats)]
    /\ last' = Mutated("bind_stats")
    /\ pc' = "bound"
    /\ PlotFrame

NextPlot ==
    \/ ReadRow
    \/ BindStats

SpecPlot == InitPlot /\ [][NextPlot]_vars

------------------------------------------------------------------------------
\* Properties

ClustersCell == group_likelihoods["clusters"]

ConfCell == group_likelihoods["conf"]

\* The value the kernel gives row g of a group cache for the current counts.
Fresh(name, g) ==
    dirichlet_categorical_logpdf(sufficient_statistics[name][g], concentration_array)

CachedCompute(l) == l.op = "compute_lh_clusters" /\ l.caching

\* C1: at every step of every sequence of mutations, the total log-likelihood
\* evaluated with caching equals the one evaluated without caching.
C1_CacheCorrectness ==
    total_log_likelihood(group_likelihoods, clusters, source, sufficient_statistics, TRUE).ret
    = total_log_likelihood(group_likelihoods, clusters, source, sufficient_statistics, FALSE).ret

\* A mutation left one cluster row dirty and another clean with a cached value.
C1_Witness ==
    /\ last.op = "mutation"
    /\ ClustersCell.dirty["sufficient_stats"] # {}
    /\ \E g \in Clusters :
          /\ g \notin ClustersCell.dirty["sufficient_stats"]
          /\ ClustersCell.value[g] # 0

\* C2: a compute_lh_clusters(caching=True) that directly follows a successful
\* compute_lh_clusters(caching=True) which recomputed dirty rows recomputes no
\* row, writes nothing and returns the same sum.
C2_SecondCallRecomputesNothing ==
    [][(CachedCompute(last') /\ last'.after = "recomputed")
        => /\ last'.changed = {}
           /\ ~last'.raised
           /\ last'.ret = last.ret
           /\ group_likelihoods' = group_likelihoods]_vars

C2_Witness ==
    /\ CachedCompute(last)
    /\ last.after = "recomputed"
    /\ last.ret # 0

C4_StalenessMonotonic ==
    [][(\/ \E k \in CompKeys :
             ~(component_likelihoods.dirty[k] \subseteq component_likelihoods'.dirty[k])
        \/ is_outdated(component_likelihoods) /\ ~is_outdated(component_likelihoods'))
        => (last'.op = "pointwise_likelihood" /\ ~last'.raised)]_vars

\* An edit of the pointwise cache raised and the markers are still there.
C4_Witness ==
    /\ last.op = "pointwise_likelihood"
    /\ last.raised
    /\ last.changed # {}
    /\ last.changed \subseteq (component_likelihoods.dirty["clusters"]
                                \cup component_likelihoods.dirty["clusters_sufficient_stats"])

\* The pointwise likelihood of the current clusters and counts.
FreshPointwise ==
    pointwise_likelihood(component_likelihoods, clusters, sufficient_statistics,
                         FALSE, NoRaise).cell.value

\* C5: a cache that is not outdated holds the values of the current inputs,
\* also after an exception escaped an edit; and when a kernel raises inside
\* the edit of compute_lh_clusters or of pointwise_likelihood, the cell is
\* outdated afterwards and keeps every dirty marker (for the group cache:
\* every row that is not the one of the current counts is marked dirty).
C5_RaisedEditStaysOutdated ==
    /\ [](/\ ~is_outdated(ClustersCell)
              => \A g \in Clusters : ClustersCell.value[g] = Fresh("clusters", g)
          /\ ~is_outdated(component_likelihoods)
              => component_likelihoods.value = FreshPointwise)
    /\ [][/\ (last'.op = "compute_lh_clusters" /\ last'.raised)
               => /\ is_outdated(ClustersCell')
                  /\ ClustersCell'.dirty = ClustersCell.dirty
                  /\ \A g \in Clusters :
                        ClustersCell'.value[g] # Fresh("clusters", g)
                        => g \in ClustersCell'.dirty["sufficient_stats"]
          /\ (last'.op = "pointwise_likelihood" /\ last'.raised)
               => /\ is_outdated(component_likelihoods')
                  /\ component_likelihoods'.dirty = component_likelihoods.dirty]_vars

\* A kernel raised in an edit of the pointwise cache that was entered on a
\* clean cell: rows are written, the value is no longer the one of the
\* inputs, and the cell is outdated.
C5_Witness ==
    /\ last.op = "pointwise_likelihood"
    /\ last.raised
    /\ last.after = "clean"
    /\ is_outdated(component_likelihoods)
    /\ component_likelihoods.value # FreshPointwise

\* C6: compute_lh_clusters and compute_lh_confounder return the sum over all
\* rows of the cache, the rows reported as changed recomputed from the counts
\* and the other rows as they were cached.
C6_SumOverAllRows ==
    [][/\ (last'.op = "compute_lh_clusters" /\ ~last'.raised)
           => last'.ret = SumF([g \in Clusters |->
                                  IF g \in last'.changed THEN Fresh("clusters", g)
                                  ELSE ClustersCell.value[g]], Clusters)
       /\ (last'.op = "compute_lh_confounder" /\ ~last'.raised)
           => last'.ret = SumF([g \in Groups |->
                                  IF g \in last'.changed THEN Fresh("conf", g)
                                  ELSE ConfCell.value[g]], Groups)]_vars

\* A cached call recomputed some rows and summed cached values of the others.
C6_Witness ==
    /\ CachedCompute(last)
    /\ ~last.raised
    /\ last.changed # {}
    /\ \E g \in Clusters \ last.changed : ClustersCell.value[g] # 0

\* C7: with caching=False what_changed reports every index, whatever is
\* marked dirty, and every row is recomputed.
C7_UncachedReportsAll ==
    [][/\ (last'.op = "compute_lh_clusters" /\ ~last'.caching)
           => /\ last'.changed = Clusters
              /\ ~last'.raised => \A g \in Clusters :
                                     ClustersCell'.value[g] = Fresh("clusters", g)
       /\ (last'.op = "compute_lh_confounder" /\ ~last'.caching)
           => /\ last'.changed = Groups
              /\ \A g \in Groups : ConfCell'.value[g] = Fresh("conf", g)]_vars

\* An uncached call on a cell with no dirty marker.
C7_Witness ==
    /\ last.op = "compute_lh_clusters"
    /\ ~last.caching
    /\ ~last.raised
    /\ last.after = "clean"
    /\ last.changed = Clusters

SourceDependentsOutdated ==
    /\ \A name \in Names :
          /\ is_outdated(group_likelihoods[name])
          /\ group_likelihoods[name].dirty["sufficient_stats"] = GroupIdx(name)
    /\ is_outdated(component_likelihoods)
    /\ component_likelihoods.dirty["clusters_sufficient_stats"] = Clusters
    /\ component_likelihoods.dirty["conf_sufficient_stats"] = Groups

\* C8: once the source is replaced through its setter the group caches and
\* the pointwise cache are outdated in all their rows, and each of them stays
\* outdated until it is recomputed.
C8_SourceSetterInvalidates ==
    /\ [](last.op = "set_source" => SourceDependentsOutdated)
    /\ [][/\ \A name \in Names :
                (is_outdated(group_likelihoods[name]) /\ ~is_outdated(group_likelihoods'[name]))
                => last'.op = "total_log_likelihood"
          /\ (is_outdated(component_likelihoods) /\ ~is_outdated(component_likelihoods'))
                => last'.op = "pointwise_likelihood"]_vars

\* The source was set while every cache was clean.
C8_Witness ==
    /\ last.op = "set_source"
    /\ last.after = "clean"

\* C9: no object belongs to two clusters, in every state of the initializer
\* and of the sampler it hands its sample to.
C9_Disjoint ==
    \A c, d \in DOMAIN clusters : c # d => clusters[c] \cap clusters[d] = {}

\* A sample with two clusters, one of them grown, reached the sampler.
C9_Witness ==
    /\ pc = "sampling"
    /\ n_clusters >= 2
    /\ \E c \in Clusters : Cardinality(clusters[c]) >= 2

RECURSIVE Reachable(_, _, _)
Reachable(from, S, adj) ==
    LET more == {o \in S \ from : adj[o] \cap from # {}} IN
    IF more = {} THEN from ELSE Reachable(from \cup more, S, adj)

Connected(S, adj) == \A seed \in S : Reachable({seed}, S, adj) = S

\* C11: whenever grow_cluster_of_size_k(k, already_in_cluster), k >= 1,
\* returns, the cluster has exactly k members, all of them free at the call,
\* and every member is reachable from every other through members only.
C11_SizeKConnected ==
    pc = "returned"
        => /\ Cardinality(cluster) = last.k
           /\ cluster \cap last.already_in_cluster = {}
           /\ Connected(cluster, adj_mat)

C11_Witness ==
    /\ pc = "returned"
    /\ last.k = 2
    /\ Cardinality(cluster) = 2
    /\ \E o \in Objects : adj_mat[o] = {}

\* C12: grow_cluster_of_size_k raises ClusterError exactly when no object was
\* free at the call, or the cluster is smaller than k and has no free
\* neighbour; in every other case it returns.
C12_RaisesExactlyWhenStuck ==
    /\ pc \in {"returned", "ClusterError"}
        => (pc = "ClusterError"
              <=> \/ Objects \subseteq last.already_in_cluster
                  \/ /\ cluster # {}
                     /\ Cardinality(cluster) < last.k
                     /\ get_neighbours(cluster, occupied, adj_mat) = {})
    /\ pc = "ClusterError" /\ cluster # {}
        => /\ Connected(cluster, adj_mat)
           /\ occupied = last.already_in_cluster \cup cluster

C12_Witness ==
    /\ pc = "ClusterError"
    /\ Cardinality(cluster) = 2
    /\ last.k = 3
    /\ Objects \ occupied # {}

\* C13: grow calls the proposal at most 20 times; a call that is not
\* rejected ends grow at once with that call's sample; grow raises
\* ClusterError exactly when the 20th call is rejected like all before it;
\* and grow always ends.
C13_GrowAtMostTwentyTimes ==
    /\ [](tries <= GrowTries)
    /\ [](pc = "ClusterError" => tries = GrowTries)
    /\ [][pc = "grow"
            => /\ tries' = tries + 1
               /\ pc' = "returned" <=> clusters' # clusters
               /\ pc' = "ClusterError" <=> clusters' = clusters /\ tries' = GrowTries]_vars
    /\ [][pc # "grow" => UNCHANGED vars]_vars
    /\ <>(pc \in {"returned", "ClusterError"})

C13_Witness ==
    /\ pc = "returned"
    /\ tries = GrowTries

\* C14: grow_random_clusters catches every ClusterError and retries, raises
\* ValueError only when a call fails after 1000 failed attempts, and always
\* ends by returning clusters or raising that ValueError.
C14_CatchesAndRetries ==
    /\ [](pc # "ClusterError")
    /\ [](attempts <= max_attempts)
    /\ [](pc = "ValueError" => attempts = max_attempts /\ last.raised)
    /\ [][pc = "for" /\ last'.raised /\ attempts < max_attempts
            => pc' = "while" /\ attempts' = attempts + 1]_vars
    /\ [][pc = "while" => pc' = "for" /\ i_c' = 0]_vars
    /\ <>(pc \in {"returned", "ValueError"})

C14_Witness ==
    /\ pc = "ValueError"
    /\ attempts = max_attempts

\* C15 as stated: the size is reduced only when the last 20 calls in a row
\* have failed.
C15_Original ==
    [][initial_size' # initial_size => last'.failed_in_a_row >= reduce_every]_vars

\* C15: the size is reduced, by one and with a restart from empty clusters,
\* exactly at every 20th failed attempt of the call, successes in between
\* or not, while it is above 3.
C15_ReducedEveryTwentiethFailure ==
    /\ [][initial_size' # initial_size
            <=> /\ pc = "for"
                /\ last'.raised
                /\ attempts' = attempts + 1
                /\ attempts' % reduce_every = 0
                /\ initial_size > smallest_size]_vars
    /\ [][initial_size' # initial_size
            => initial_size' = initial_size - 1 /\ restart' /\ pc' = "while"]_vars
    /\ [][restart => occupied' = {} /\ \A c \in Clusters : clusters'[c] = {}]_vars

C15_Witness ==
    /\ restart
    /\ attempts = reduce_every
    /\ last.failed_in_a_row < reduce_every

\* C16: with attempts > 0, generate_sample runs exactly that many attempts
\* and returns the one with the highest score, the earliest on ties.
C16_ReturnsHighestScoring ==
    pc = "returned"
        => /\ Len(lhs) = initialization_attempts
           /\ best_sample \in 1..Len(lhs)
           /\ \A n \in 1..Len(lhs) : ~Greater(lhs[n], lhs[best_sample])
           /\ \A n \in 1..(best_sample - 1) : lhs[n] # lhs[best_sample]

\* C17: with zero or negative initialization attempts the run is rejected
\* before any sampling: no attempt, seeding or sampler step is reached.
C17_NonPositiveAttemptsRejected ==
    initialization_attempts <= 0
        => pc \in {"setup", "call", "AssertionError"}

\* The attempt has built its sample (line 142 is passed) and has not failed.
Built == pc \in {"built", "grow", "grown", "steps", "finish", "done"}

\* C18: the initial growth of generate_sample_attempt is round-robin: the
\* n-th grow step is for cluster (n - 1) mod n_clusters, so each round issues
\* one grow step per cluster in index order, and the growth is over after
\* initial_size - 1 rounds.
C18_RoundRobin ==
    /\ \A n \in 1..Len(grown) : grown[n] = (n - 1) % n_clusters
    /\ pc \in {"start", "seeded", "built"} => grown = <<>>
    /\ pc = "grow" => Len(grown) = (round - 1) * n_clusters + i_c
    /\ pc \in {"grown", "steps", "finish", "done", "ClusterError"}
        => /\ initial_size >= 1 => Len(grown) = (initial_size - 1) * n_clusters
           /\ \A c \in Clusters :
                 Cardinality({n \in 1..Len(grown) : grown[n] = c}) = initial_size - 1

C18_Witness ==
    /\ pc = "grown"
    /\ n_clusters = 2
    /\ initial_size = 3
    /\ grown = <<0, 1, 0, 1>>

\* C19: every sample generate_sample returns has each cluster's size within
\* [min_size, max_size].
C19_SizesWithinBounds ==
    pc = "done"
        => \A c \in Clusters :
              /\ min_size <= Cardinality(clusters[c])
              /\ Cardinality(clusters[c]) <= max_size

C28_UnreportedRowsKept ==
    [][/\ (last'.op = "compute_lh_clusters" /\ last'.caching)
           => \A g \in Clusters \ what_changed(ClustersCell, "sufficient_stats", TRUE, Clusters) :
                 ClustersCell'.value[g] = ClustersCell.value[g]
       /\ (last'.op = "compute_lh_confounder" /\ last'.caching)
           => \A g \in Groups \ what_changed(ConfCell, "sufficient_stats", TRUE, Groups) :
                 ConfCell'.value[g] = ConfCell.value[g]]_vars

\* A cached call on the clusters recomputed one row and skipped a row that
\* holds a likelihood of an earlier call.
C28_Witness ==
    /\ CachedCompute(last)
    /\ last.after = "other"
    /\ Cardinality(last.changed) = 1
    /\ \E g \in Clusters \ last.changed :
          /\ ClustersCell.value[g] # 0
          /\ ClustersCell.value[g] = Fresh("clusters", g)


\* C21: for the engine of every feature type, the array pointwise_likelihood
\* committed holds the neutral value 1 at every entry of an object that the
\* NA mask of the type excludes, for every component: whenever the call
\* returned and whenever the cache is not outdated.  The NA mask of the
\* categorical features is na_values; for the other types every mask is taken.
C21_NeutralAtMissing ==
    ((last.op = "pointwise_likelihood" /\ ~last.raised) \/ ~is_outdated(component_likelihoods))
    => \A mask \in (IF feature_type = "categorical"
                    THEN {{o \in Objects : na_values(o)}}
                    ELSE SUBSET Objects) :
          \A o \in mask, k \in Components : component_likelihoods.value[o][k] = 1000

\* The categorical engine recomputed the row of a cluster that holds an
\* object without observation, and the entry of the object is 1 for the
\* cluster component.
C21_Witness ==
    /\ feature_type = "categorical"
    /\ last.op = "pointwise_likelihood"
    /\ ~last.raised
    /\ \E c \in last.changed, o \in Objects :
          /\ na_values(o)
          /\ o \in clusters[c]
          /\ component_likelihoods.value[o][source_index("clusters")] = 1000


\* C29: a pointwise_likelihood called with caching on a cell that is not
\* outdated opens no edit, runs no kernel and leaves the cell as it is, its
\* value and every dirty marker; a cell some input key of which was marked
\* dirty since the last commit is outdated, and the call on an outdated cell
\* opens an edit and, unless a kernel raises, commits the likelihoods of the
\* current inputs.
C29_CleanCellReturnsCache ==
    /\ []((\E k \in CompKeys : component_likelihoods.dirty[k] # {})
             => is_outdated(component_likelihoods))
    /\ [][(last'.op = "pointwise_likelihood" /\ last'.caching)
            => LET r == pointwise_likelihood(component_likelihoods, clusters,
                                             sufficient_statistics, TRUE, NoRaise)
               IN  /\ ~is_outdated(component_likelihoods)
                        => /\ ~r.edited
                           /\ last'.changed = {}
                           /\ component_likelihoods' = component_likelihoods
                   /\ is_outdated(component_likelihoods)
                        => /\ r.edited
                           /\ ~last'.raised
                                => /\ ~is_outdated(component_likelihoods')
                                   /\ component_likelihoods'.value = FreshPointwise]_vars

\* A cached call found the cell not outdated and returned the likelihoods
\* an earlier call committed.
C29_Witness ==
    /\ last.op = "pointwise_likelihood"
    /\ last.caching
    /\ last.after = "clean"
    /\ ~is_outdated(component_likelihoods)
    /\ \E o \in Objects : component_likelihoods.value[o][source_index("clusters")] \notin {0, 1000}


\* The column of the component of `name` as the kernel of the categorical
\* engine gives it for the current clusters and counts, patched.
FreshColumn(name) ==
    LET col == compute_pointwise_likelihood(sufficient_statistics, name, clusters,
                                            GroupIdx(name), [o \in Objects |-> 0])
    IN  [o \in Objects |-> IF na_values(o) THEN 1000 ELSE col[o]]

\* Column 0 holds the cluster component and column j >= 1 the j-th confounder.
ColumnsByComponent ==
    /\ source_index("clusters") = 0
    /\ source_index("conf") = 1
    /\ [][(last'.op = "pointwise_likelihood" /\ ~last'.caching /\ ~last'.raised)
            => \A name \in Names :
                  Column(component_likelihoods'.value, source_index(name))
                  = FreshColumn(name)]_vars

ColumnKept(k) ==
    \A o \in Objects :
       \/ component_likelihoods'.value[o][k] = component_likelihoods.value[o][k]
       \/ na_values(o) /\ component_likelihoods'.value[o][k] = 1000

C23_CountsRecalculatedFirst ==
    [][(last'.op = "total_log_likelihood" /\ ~last'.caching)
        => LET stats == recalculate_feature_counts(clusters, source)
               lh == [name \in Names |->
                        [g \in GroupIdx(name) |->
                            dirichlet_categorical_logpdf(stats[name][g], concentration_array)]]
           IN  /\ sufficient_statistics' = stats
               /\ \A name \in Names : group_likelihoods'[name].value = lh[name]
               /\ last'.ret = SumF(lh["clusters"], Clusters) + SumF(lh["conf"], Groups)]_vars

\* An uncached evaluation found counts that were not those of the source and
\* the clusters.
C23_Witness ==
    /\ last.op = "total_log_likelihood"
    /\ ~last.caching
    /\ last.after = "stale"
    /\ sufficient_statistics = recalculate_feature_counts(clusters, source)


\* The total of the engine of a type on the sample as it is.
EngineTotal(ft) ==
    IF ft = "categorical"
    THEN total_log_likelihood(group_likelihoods, clusters, source,
                              sufficient_statistics, FALSE).ret
    ELSE engine_log_lh(ft, clusters)

\* C22: Likelihood.__call__ calls the engines of exactly the feature types
\* the sample has, each once, and returns the sum of their totals; the engine
\* of an absent type is not called and adds nothing.
C22_SumOfPresentEngines ==
    last.op = "likelihood"
    => /\ {invoked[i] : i \in DOMAIN invoked} = present
       /\ Len(invoked) = Cardinality(present)
       /\ last.ret = SumF([ft \in present |-> EngineTotal(ft)], present)

\* A call on a sample with two of the four types.
C22_Witness ==
    /\ last.op = "likelihood"
    /\ present = {"categorical", "poisson"}
    /\ invoked = <<"categorical", "poisson">>
    /\ last.ret = EngineTotal("categorical") + EngineTotal("poisson")
    /\ EngineTotal("categorical") # 0


\* C24: normalize_weights gives two objects whose rows of has_components are
\* the same the same normalized weights, for every feature: in the array it
\* returns for the weights and the clusters of the sample, and in the array
\* update_<type>_weights committed.
C24_SamePatternSameWeights ==
    LET has == HasComponents(clusters)
        w_normed == normalize_weights(sample_weights[feature_type], has)
        same(x) == \A o1, o2 \in Objects :
                      has[o1] = has[o2]
                      => \A f \in FeaturesOf(feature_type) : x[o1][f] = x[o2][f]
    IN  /\ same(w_normed)
        /\ last.op = "update_weights" => same(weights_normalized[feature_type].value)

\* The weights were normalised for objects of two patterns, two of them with
\* the same one, and the weights of the two patterns differ.
C24_Witness ==
    /\ last.op = "update_weights"
    /\ last.recomputed
    /\ \E o1, o2, o3 \in Objects :
          /\ o1 # o2
          /\ has_components(clusters, o1) = has_components(clusters, o2)
          /\ has_components(clusters, o3) # has_components(clusters, o1)
          /\ last.value[o1] = last.value[o2]
          /\ last.value[o3] # last.value[o1]

\* C30: update_<type>_weights normalises the weights and commits them exactly
\* when caching is off or the cell of the normalized weights is outdated, and
\* returns the cell as it is otherwise.  After it the cell is not outdated,
\* its value is normalize_weights of the weights and has_components of the
\* sample, the value is the one returned, and the cells of the other types
\* are as they were.
C30_UpdateWeights ==
    [][last'.op = "update_weights"
        => LET ft == feature_type
               cache == weights_normalized[ft]
               fresh == normalize_weights(sample_weights[ft], HasComponents(clusters))
           IN  /\ last'.recomputed <=> (~last'.caching \/ is_outdated(cache))
               /\ ~last'.recomputed => weights_normalized' = weights_normalized
               /\ ~is_outdated(weights_normalized'[ft])
               /\ weights_normalized'[ft].value = fresh
               /\ last'.value = fresh
               /\ \A other \in FeatureTypes \ {ft} :
                     weights_normalized'[other] = weights_normalized[other]]_vars

\* A call with caching found the cell outdated after the weights were set and
\* committed weights that are not the ones it held.
C30_Witness ==
    /\ last.op = "update_weights"
    /\ last.caching
    /\ last.after = "other"
    /\ last.recomputed
    /\ ~is_outdated(weights_normalized[feature_type])
    /\ \E f \in FeaturesOf(feature_type) :
          sample_weights[feature_type][f] # generate_initial_weights


\* C26: the sample last_sample returns has the last persisted clusters and
\* weights, a source impute_source gave it and the counts recalculated from
\* that source and the clusters, whatever source and counts it was
\* constructed with; the placeholders are there only between the
\* construction and the return.
C26_ResumedSampleRebuilt ==
    /\ [](pc = "returned"
            => /\ clusters = results[Len(results)].clusters
               /\ sample_weights["categorical"] = results[Len(results)].weights
               /\ source \in impute_source(clusters)
               /\ sufficient_statistics = recalculate_feature_counts(clusters, source))
    /\ [](sufficient_statistics # recalculate_feature_counts(clusters, source)
            => pc = "constructed")

\* A run with several persisted samples, the last with other clusters than
\* the first, was resumed, and the counts of the sample returned are not the
\* zero placeholders.
C26_Witness ==
    /\ pc = "returned"
    /\ Len(results) = MaxSamples
    /\ results[1].clusters # results[Len(results)].clusters
    /\ sufficient_statistics # dummy_feature_counts

\* C27: the step counter of the sample last_sample returns is the id of the
\* last persisted sample plus one, and so greater than the id of every
\* persisted sample.
C27_StepAfterPersisted ==
    pc \in {"constructed", "returned"}
    => /\ i_step = results[Len(results)].sample_id + 1
       /\ \A i \in DOMAIN results : i_step > results[i].sample_id

\* A run with several persisted samples was resumed.
C27_Witness ==
    /\ pc = "returned"
    /\ Len(results) > 1
    /\ i_step = MaxId + 1


\* The computation per object, without the patterns: weights * has_components
\* divided by its sum over the components (in 1/1000).
WeightsPerSite(weights, has) ==
    [o \in DOMAIN has |->
        [f \in DOMAIN weights |->
            LET masked == [k \in Components |-> IF k \in has[o] THEN weights[f][k] ELSE 0]
            IN  [k \in Components |-> (1000 * masked[k]) \div SumF(masked, Components)]]]

\* C31: for every object and feature normalize_weights gives 0 for every
\* component the object does not have, values over the components it has
\* that are proportional to the raw weights and sum to 1, and the array of
\* the computation per object; so does the array update_<type>_weights
\* committed.
C31_NormalizedOverPresent ==
    LET has == HasComponents(clusters)
        w == sample_weights[feature_type]
        normed(x) ==
            /\ \A o \in Objects, f \in FeaturesOf(feature_type) :
                  /\ \A k \in Components \ has[o] : x[o][f][k] = 0
                  /\ SumF(x[o][f], Components) = 1000
                  /\ \A j, k \in has[o] : x[o][f][j] * w[f][k] = x[o][f][k] * w[f][j]
            /\ x = WeightsPerSite(w, has)
    IN  /\ normed(normalize_weights(w, has))
        /\ (last.op = "update_weights" /\ last.recomputed) => normed(last.value)

\* The weights were normalised for an object without the cluster component,
\* whose raw weight is positive, and for an object with every component; the
\* features of the type have different raw weights.
C31_Witness ==
    /\ last.op = "update_weights"
    /\ last.recomputed
    /\ \E f, g \in FeaturesOf(feature_type) :
          sample_weights[feature_type][f] # sample_weights[feature_type][g]
    /\ \E o1, o2 \in Objects :
          /\ has_components(clusters, o1) = Components
          /\ 0 \notin has_components(clusters, o2)
          /\ \A f \in FeaturesOf(feature_type) :
                /\ sample_weights[feature_type][f][0] > 0
                /\ last.value[o2][f][0] = 0
                /\ last.value[o2][f] # sample_weights[feature_type][f]
                /\ last.value[o1][f] = sample_weights[feature_type][f]


\* The orders in which the members of a cluster can have joined it: the seed
\* first, every later member adjacent to an earlier one and, when it joins,
\* neither occupied at the call nor a member.
GrowthOrders(cl, already_in_cluster, adj) ==
    {order \in [1..Cardinality(cl) -> cl] :
        /\ \A m, n \in DOMAIN order : m # n => order[m] # order[n]
        /\ \A n \in DOMAIN order :
              LET earlier == {order[m] : m \in 1..(n - 1)}
              IN  /\ order[n] \notin already_in_cluster \cup earlier
                  /\ n > 1 => adj[order[n]] \cap earlier # {}}

\* C32: when grow_cluster_of_size_k returns, the cluster has no object that
\* was marked in already_in_cluster at the call, the occupancy it returns is
\* the one of the call united with the cluster, and the members can have
\* joined only one after the other, each after the seed adjacent to a member
\* and occupied by no cluster when it joined.
C32_GrownFromFreeNeighbours ==
    pc = "returned"
        => /\ cluster \cap last.already_in_cluster = {}
           /\ occupied = last.already_in_cluster \cup cluster
           /\ GrowthOrders(cluster, last.already_in_cluster, adj_mat) # {}

\* A cluster of two was returned whose seed and whose other member are both
\* adjacent to an object that was occupied at the call.
C32_Witness ==
    /\ pc = "returned"
    /\ Cardinality(cluster) = 2
    /\ \E o \in last.already_in_cluster : cluster \subseteq adj_mat[o]
    /\ occupied = Objects


EveryKeyDirty ==
    /\ \A name \in Names :
          /\ GroupIdx(name) # {} => is_outdated(group_likelihoods[name])
          /\ what_changed(group_likelihoods[name], "sufficient_stats", TRUE,
                          GroupIdx(name)) = GroupIdx(name)
    /\ is_outdated(component_likelihoods)
    /\ \A k \in CompKeys :
          what_changed(component_likelihoods, k, TRUE, KeyIdx(k)) = KeyIdx(k)

\* C34: in the sample generate_sample_attempt returns every cache key is
\* dirty, whatever the operators of the attempt had evaluated before, and
\* the first likelihood evaluation on it with caching recomputes every
\* cluster and every group of the confounder, for the likelihood of the
\* groups and for the pointwise likelihood.
C34_ReturnedSampleAllDirty ==
    /\ [](pc = "done" => EveryKeyDirty)
    /\ [][(pc = "done" /\ pc' = "sampling" /\ last'.caching)
            => /\ last'.changed = Clusters
               /\ last'.groups = Groups
               /\ last'.pointwise = AllGroups]_vars

\* A sample with every cluster was returned whose caches hold values the
\* operators of the attempt had committed: every key of them is dirty.
C34_Witness ==
    /\ pc = "done"
    /\ n_clusters = NClusters
    /\ EveryKeyDirty
    /\ \A c \in Clusters : group_likelihoods["clusters"].value[c] # 0
    /\ \E o \in Objects, k \in Components : component_likelihoods.value[o][k] # 0

\* The sample as the caller of MCMCSetup.sample sees it.
GivenSample == <<clusters, source, sufficient_statistics, sample_weights, i_step>>

\* C35: MCMCSetup.sample takes its starting state from one source: a given
\* initial sample is used as it is, without reading results and without
\* warm-up; without one, resume loads the last persisted sample and there is
\* no warm-up; without either the warm-up runs, nothing is read, and the
\* step counter of its sample is set to 0.  The main sampler starts only
\* from the state so fixed.
C35_OneStartingState ==
    /\ [](args.initial_sample => pc \in {"sample", "sampler", "sampling"})
    /\ []((~args.initial_sample /\ args.resume)
            => pc \in {"sample", "last_sample", "constructed", "returned", "sampling"})
    /\ []((~args.initial_sample /\ ~args.resume)
            => pc \in {"sample", "warmup", "warmed", "sampler", "sampling"})
    /\ [][args.initial_sample => UNCHANGED GivenSample]_vars
    /\ []((pc = "sampling" /\ ~args.initial_sample /\ args.resume)
            => clusters = results[Len(results)].clusters)
    /\ []((pc \in {"sampler", "sampling"} /\ ~args.initial_sample /\ ~args.resume)
            => i_step = 0)
    /\ [][pc' = "sampling" => (pc \in {"sampler", "returned"} /\ UNCHANGED GivenSample)]_vars
    /\ [][pc = "sampling" => UNCHANGED vars]_vars

\* The sampler was started from a given sample, with resume set, whose
\* clusters are not the last persisted ones.
C35_Witness ==
    /\ pc = "sampling"
    /\ args.initial_sample
    /\ args.resume
    /\ i_step # results[Len(results)].sample_id + 1
    /\ clusters # results[Len(results)].clusters


\* The array the kernels of pointwise_likelihood leave in the edit, before
\* the NA patch, when none of them raises.
KernelValues(cell, cl, counts, caching) ==
    LET changed_clusters ==
            what_changed(cell, "clusters", caching, Clusters)
            \cup what_changed(cell, "clusters_sufficient_stats", caching, Clusters)
        changed_groups == what_changed(cell, "conf_sufficient_stats", caching, Groups)
        col0 == IF changed_clusters # {}
                THEN compute_pointwise_component(counts, "clusters", cl, changed_clusters,
                                                 Column(cell.value, 0))
                ELSE Column(cell.value, 0)
        col1 == IF changed_groups # {}
                THEN compute_pointwise_component(counts, "conf", cl, changed_groups,
                                                 Column(cell.value, 1))
                ELSE Column(cell.value, 1)
    IN  component_columns(col0, col1)

\* The objects the NA mask of the type excludes: those without observation
\* for the categorical features, none for a type without a mask.
NAMask == IF feature_type = "categorical" THEN {o \in Objects : na_values(o)} ELSE {}

\* C36: for every feature type, the array an edit of pointwise_likelihood
\* commits holds, at every entry of an object the NA mask of the type does
\* not exclude, the value the kernel computed for it.
C36_PatchOnlyAtMissing ==
    [][(/\ last'.op = "pointwise_likelihood"
        /\ ~last'.raised
        /\ ~returns_cached(component_likelihoods, last'.caching))
        => \A o \in Objects \ NAMask, k \in Components :
              component_likelihoods'.value[o][k]
              = KernelValues(component_likelihoods, clusters, sufficient_statistics,
                             last'.caching)[o][k]]_vars


\* C39: with attempts > 0, generate_sample returns one of the samples it
\* generated, never None, whatever the scores of the attempts were.
C39_NeverReturnsNone ==
    (pc = "returned" /\ initialization_attempts > 0) => best_sample # 0


\* C37: when grow_cluster_of_size_k raises ClusterError, already_in_cluster
\* of the caller is as it was at the call.
C37_OccupancyAsBeforeOnError ==
    pc = "ClusterError" => occupied = last.already_in_cluster

\* C38: in grow_random_clusters, between the calls of grow_cluster_of_size_k
\* and at the return, the objects marked occupied are those of the rows of
\* initial_clusters.
C38_OccupiedIsUnionOfRows ==
    (pc \in {"for", "while", "returned"} /\ n_clusters > 0)
        => occupied = UNION {clusters[c] : c \in Clusters}


\* C40: after read_stats has read a file that is not the ground truth, every
\* column of a parameter that was collected holds one value per data row, in
\* the order of the rows, as many as the posterior, likelihood and prior lists.
C40_ColumnsHoldEveryRow ==
    (pc = "bound" /\ ~contains(f_stats.txt_path, "ground_truth")) =>
        LET r == f_stats.results
            dicts == <<r.weights, r.alpha, r.beta, r.gamma,
                       r.posterior_single_zones, r.likelihood_single_zones,
                       r.prior_single_zones>>
        IN  /\ r.posterior = f_stats.rows
            /\ r.likelihood = f_stats.rows
            /\ r.prior = f_stats.rows
            /\ \A d \in 1..Len(dicts) : \A key \in DOMAIN dicts[d] :
                  /\ Len(dicts[d][key]) = Len(r.posterior)
                  /\ dicts[d][key] = f_stats.rows

==============================================================================
